---- MODULE Spec2Model ----
(***************************************************************************)
(* Coordination layer of the product-catalog service:                      *)
(*   - RedisService.cache          (stampede-safe read-through cache)      *)
(*   - RedisService.checkRateLimit (sliding-window limiter)                *)
(* Every action is one await-delimited step of the TypeScript handler.     *)
(***************************************************************************)
EXTENDS Integers, Sequences, FiniteSets, TLC

(***************************************************************************)
(* Bounds of the model                                                     *)
(***************************************************************************)
NumCallers == 3        \* concurrent callers of cache() on the one key
MaxRounds == 1         \* cache() calls per caller
MaxEnvEvents == 2      \* expiries, invalidations, origin writes, outages
MaxVer == 1            \* versions of the entity in the store of record
NumClients == 2        \* service instances calling checkRateLimit on the one key
MaxRlCalls == 3        \* checkRateLimit calls in a behaviour
MaxClock == 2000       \* last instant of the model's clock, in ms
MaxDelay == 500        \* longest time between Date.now() and the pipeline's execution, in ms
NumProducts == 2       \* rows the product table can hold (ids 1..NumProducts)
NumWorkers == 2        \* concurrent create/update/delete calls
MaxOps == 3            \* write operations in a behaviour
MaxFaults == 1         \* injected failures of the database, the bus or the gateway
MaxDeliveries == 3     \* messages handed to the consumer in a behaviour
MaxBulkCalls == 2      \* bulkRateLimit calls in a behaviour
BurstWindowMs == 2000  \* window of the rule under which bursts and late pipelines are followed
BurstMaxRequests == 2
BurstCalls == 4        \* checkRateLimit calls under that rule
ScenarioStep == 5000   \* clock step of the 60 s rule's scenario
ScenarioEnd == 10000   \* the scenario's calls are made in its first ten seconds
ScenarioCalls == 6     \* checkRateLimit calls in the scenario
MaxUnlimited == 1      \* guarded requests to a handler without rate-limit options
MaxStoreCalls == 3     \* get/set/del/exists/invalidatePattern calls in a behaviour
NumProducers == 3      \* service instances starting their Kafka producer
MaxAttemptsCap == 7    \* connect attempts the model follows per instance
MaxListWrites == 3     \* create/update/delete calls followed for the list entries

ClockSteps == {500}                \* the clock advances in steps of these many ms
Windows == {500, 1000}             \* windowMs of the rule attached to the operation
MaxRequestsChoices == {1, 2}       \* maxRequests of the rule
MsPerSecond == 1000                \* `windowMs / 1000`, EXPIRE counts seconds
ExpireSlackSeconds == 1            \* `Math.ceil(windowMs / 1000) + 1`
ScenarioWindowMs == 60000          \* `@RateLimit({ windowMs: 60000, maxRequests: 5 })`
ScenarioMaxRequests == 5
TooManyRequests == 429             \* HttpStatus.TOO_MANY_REQUESTS
MaxRetries == 5                    \* `const maxRetries = 5` of the producer's onModuleInit
BackoffMs == 3000                  \* `setTimeout(res, 3000)` between connect attempts

Callers == 1..NumCallers
Clients == 1..NumClients
Ids == 1..NumProducts
Workers == 1..NumWorkers
Producers == 1..NumProducers
Categories == {"A", "B"}           \* categoryId values
Slugs == {"s1", "s2"}              \* slug values

(***************************************************************************)
(* Values.  prisma returns null or a record whose createdAt is a Date;     *)
(* JSON text carries the date as a string and JSON.parse leaves it one.    *)
(***************************************************************************)
Null == [ver |-> 0, createdAt |-> "none"]
Entity(n) == [ver |-> n, createdAt |-> "Date"]
OriginValues == {Null} \cup {Entity(n) : n \in 1..MaxVer}

JSONstringify(v) == [json |-> v.ver]
JSONparse(s) == IF s.json = 0 THEN Null ELSE [ver |-> s.json, createdAt |-> "string"]
NoVal == [json |-> -1]     \* what GET answers for a key that is not there

NoRet == [kind |-> "none", val |-> Null]
RetValue(v) == [kind |-> "value", val |-> v]
RetFetchError == [kind |-> "fetchError", val |-> Null]
RetStoreError == [kind |-> "storeError", val |-> Null]

VARIABLES
  status,      \* redisClient: "absent" (null), "ready", "down" (any other ioredis status)
  kv,          \* the string stored under key, or NoVal
  lock,        \* TRUE iff `${key}:lock` is stored
  origin,      \* what fetchFn reads from the store of record
  pc,          \* per caller: position inside cache()
  client,      \* per caller: the `client` local of the current invocation is non-null
  data,        \* per caller: the `data` local
  pend,        \* per caller: the completion of the try block awaiting finally
  ret,         \* per caller: what the last cache() call gave its caller
  round,       \* per caller: cache() calls started
  \* history
  lockOwner,   \* the caller whose SET NX stored the present lock, 0 if none
  fetchCount,  \* fetchFn invocations so far
  invoked,     \* per caller: fetchFn was invoked in the current call
  leaseLost,   \* leases that ran out while their holder was still before its del
  everDown,    \* the store was not 'ready' at some moment
  quiet,       \* no expiry, no invalidation and no fetchFn failure so far
  envEvents,   \* environment events so far
  sawDown,     \* per caller: a step of the current call met a store that was not 'ready'
  after,       \* per caller: the current call began after a value was returned
  rt,          \* the last value a cache() call returned, with what happened to key since
  waiter       \* per caller: "no" before the 200 ms sleep; after it, "released" when the
               \* retry began with a returned value stored under key, and the entry
               \* has not run out nor the store gone away since; "waited" otherwise

cacheVars == <<status, kv, lock, origin, pc, client, data, pend, ret, round,
               lockOwner, fetchCount, invoked, leaseLost, everDown, quiet, envEvents,
               sawDown, after, rt, waiter>>

VARIABLES
  clock,       \* Date.now() and the store's clock, in ms
  windowMs,    \* the rule: width of the window
  maxRequests, \* the rule: admissions per window
  zset,        \* the sorted set under `${keyPrefix}${identifier}`: score -> number of members
  zexpireAt,   \* the instant the key runs out, -1 with no key
  rlPc,        \* per instance: "idle", or "exec" while its pipeline is on the wire
  rlNow,       \* per instance: the `now` local
  \* history
  numCalls,    \* checkRateLimit calls finished so far
  last,        \* the latest finished call: its result, its `now`, how far that is past
               \* the `now` of every call finished before it (-1 for the first), its path
  prevRemaining, \* `remaining` of the finished call before the latest
  allStore,    \* every call so far was answered from the store
  firstNow,    \* smallest `now` of the finished calls, -1 if none
  lastNow,     \* largest `now` of the finished calls, -1 if none
  hist         \* whether the call before the latest was allowed; how many calls
               \* in a row, up to the latest, came less than windowMs/maxRequests
               \* after every call before them; the `now` of the calls the
               \* store allowed (now -> number of them)

rlVars == <<clock, windowMs, maxRequests, zset, zexpireAt, rlPc, rlNow,
            numCalls, last, prevRemaining, allStore, firstNow, lastNow, hist>>

\* ProductService write paths, the event bus and ProductConsumer
VARIABLES
  db,          \* the product table: per id a row [present, cat, slug]
  nextId,      \* the id prisma gives the next created row
  pcache,      \* per id: TRUE iff `product:<id>` is stored in Redis
  op,          \* per worker: the create/update/delete call it runs, with its locals
  opsStarted,  \* write operations started so far
  faults,      \* failures of the database, the bus or the gateway injected so far
  inbox,       \* messages on product.created/updated/deleted not yet handled
  cpc,         \* ProductConsumer: position inside handleMessage
  cmsg,        \* ProductConsumer: the message being handled
  \* history
  handled,     \* the messages whose handleMessage call has returned, in order
  emitted,     \* kafkaProducer.send calls of the consumer: direction, categoryId,
               \* productId, outcome, and the delivery (1, 2, ..) they were made for
  notified     \* notifyProductCreated calls: productId, outcome, delivery

sagaVars == <<db, nextId, pcache, op, opsStarted, faults, inbox, cpc, cmsg,
              handled, emitted, notified>>

\* KafkaProducerService.onModuleInit
VARIABLES
  pst          \* per instance: position in onModuleInit, `retries`, and as history
               \* the connect attempts made and the time spent in backoff

startVars == <<pst>>

\* RedisService.bulkRateLimit
VARIABLES
  bzset,       \* identifier -> the sorted set under its key
  bexpireAt,   \* identifier -> clock at which its key expires; -1: no expiry set
  bcall,       \* the bulk call in flight: its identifiers and its `now`
  bret,        \* history: the last bulk call's arguments, returned map, and
               \* the live sets its pipeline found
  bcalls       \* history: bulk calls returned

bulkVars == <<bzset, bexpireAt, bcall, bret, bcalls>>

\* RateLimitGuard.canActivate
VARIABLES
  gpc,         \* per client: "idle", or "await" while checkRateLimit is pending
  gout,        \* history: how the last canActivate ended
  gstat        \* history: canActivate calls ended, and those without options

guardVars == <<gpc, gout, gstat>>

\* RedisService.get, set, del, exists, invalidatePattern
VARIABLES
  keyPrefix,   \* the client's `keyPrefix` option, a sequence of name segments
  mem,         \* the store: name of a key (as the server knows it) -> string
  scall,       \* the wrapper call waiting for its command
  sret,        \* history: how the last wrapper call ended
  scalls       \* history: wrapper calls ended

storeVars == <<keyPrefix, mem, scall, sret, scalls>>

\* ProductService.update against readers of byId, and the list entries
\* under the write paths
VARIABLES
  upd,         \* update(id, dto): "idle", "updated" once prisma.update has returned,
               \* "done" once the cache keys were deleted
  lret         \* history: the last write path that ran its cache step (its
               \* categoryId, the categoryId it moved the product to), and how many ran

writeVars == <<upd, lret>>

\* the variables of the components added after the cache, the limiter and the saga
extVars == <<startVars, bulkVars, guardVars, storeVars, writeVars>>

vars == <<cacheVars, rlVars, sagaVars, extVars>>

NoRt == [valid |-> FALSE, clean |-> FALSE, v |-> Null]

(***************************************************************************)
(* RedisService.ensureRedisClient                                          *)
(***************************************************************************)
EnsureRedisClient(st) == st = "ready"

(***************************************************************************)
(* RedisService.get: the sentinel null on no client or on a failed GET     *)
(***************************************************************************)
Get(st, stored) == IF EnsureRedisClient(st) THEN stored ELSE NoVal

\* `if (cached)`: a non-empty string is a hit
CachedHit_never(cached) == FALSE
CachedHit(cached) == cached # NoVal

\* SET lockKey 'locked' EX 10 NX answers 'OK' only when the key is not there
LockAcquired_always(lk) == TRUE
LockAcquired(lk) == ~lk

InCrit(c) == client[c] /\ pc[c] \in {"fetch", "set", "del"}
Fetching(c) == pc[c] = "fetch"

CacheInit ==
  /\ status \in {"ready", "absent"}
  /\ kv = NoVal
  /\ lock = FALSE
  /\ origin \in OriginValues
  /\ pc = [c \in Callers |-> "idle"]
  /\ client = [c \in Callers |-> FALSE]
  /\ data = [c \in Callers |-> Null]
  /\ pend = [c \in Callers |-> NoRet]
  /\ ret = [c \in Callers |-> NoRet]
  /\ round = [c \in Callers |-> 0]
  /\ lockOwner = 0
  /\ fetchCount = 0
  /\ invoked = [c \in Callers |-> FALSE]
  /\ leaseLost = 0
  /\ everDown = (status # "ready")
  /\ quiet = TRUE
  /\ envEvents = 0
  /\ sawDown = [c \in Callers |-> FALSE]
  /\ after = [c \in Callers |-> FALSE]
  /\ rt = NoRt
  /\ waiter = [c \in Callers |-> "no"]

\* a call returns: rt remembers a returned value whose entry is still stored
Returned(c, r, intact) ==
  rt' = IF r.kind = "value" /\ intact /\ ~everDown
        THEN [valid |-> TRUE, clean |-> TRUE, v |-> r.val]
        ELSE rt

(***************************************************************************)
(* cache(): entry, `const client = await this.ensureRedisClient()`.        *)
(* With no client the caller goes straight to fetchFn.                     *)
(***************************************************************************)
CacheCall(c) ==
  /\ pc[c] \in {"idle", "done"}
  /\ round[c] < MaxRounds
  /\ round' = [round EXCEPT ![c] = @ + 1]
  /\ ret' = [ret EXCEPT ![c] = NoRet]
  /\ after' = [after EXCEPT ![c] = rt.valid]
  /\ waiter' = [waiter EXCEPT ![c] = "no"]
  /\ sawDown' = [sawDown EXCEPT ![c] = ~EnsureRedisClient(status)]
  /\ data' = [data EXCEPT ![c] = Null]
  /\ pend' = [pend EXCEPT ![c] = NoRet]
  /\ client' = [client EXCEPT ![c] = EnsureRedisClient(status)]
  /\ IF EnsureRedisClient(status)
     THEN /\ pc' = [pc EXCEPT ![c] = "get"]
          /\ invoked' = [invoked EXCEPT ![c] = FALSE]
          /\ UNCHANGED fetchCount
     ELSE /\ pc' = [pc EXCEPT ![c] = "fetch"]
          /\ fetchCount' = fetchCount + 1
          /\ invoked' = [invoked EXCEPT ![c] = TRUE]
  /\ UNCHANGED <<status, kv, lock, origin, lockOwner, leaseLost, everDown, quiet, envEvents, rt>>

\* `const cached = await this.get(key); if (cached) return JSON.parse(cached)`
CacheGet(c) ==
  /\ UNCHANGED <<after, waiter>>
  /\ sawDown' = [sawDown EXCEPT ![c] = @ \/ ~EnsureRedisClient(status)]
  /\ pc[c] = "get"
  /\ LET cached == Get(status, kv) IN
     IF CachedHit(cached)
     THEN /\ pc' = [pc EXCEPT ![c] = "done"]
          /\ ret' = [ret EXCEPT ![c] = RetValue(JSONparse(cached))]
          /\ Returned(c, RetValue(JSONparse(cached)), TRUE)
     ELSE /\ pc' = [pc EXCEPT ![c] = "setnx"]
          /\ UNCHANGED <<ret, rt>>
  /\ UNCHANGED <<status, kv, lock, origin, client, data, pend, round, lockOwner,
                 fetchCount, invoked, leaseLost, everDown, quiet, envEvents>>

\* `await client.set(lockKey, 'locked', 'EX', 10, 'NX')` on the raw client:
\* a rejected command leaves cache() with the store's error
CacheSetNX(c) ==
  /\ UNCHANGED <<after, waiter>>
  /\ sawDown' = [sawDown EXCEPT ![c] = @ \/ ~EnsureRedisClient(status)]
  /\ pc[c] = "setnx"
  /\ IF ~EnsureRedisClient(status)
     THEN /\ pc' = [pc EXCEPT ![c] = "done"]
          /\ ret' = [ret EXCEPT ![c] = RetStoreError]
          /\ UNCHANGED <<lock, lockOwner, fetchCount, invoked>>
     ELSE IF LockAcquired(lock)
     THEN /\ lock' = TRUE
          /\ lockOwner' = c
          /\ pc' = [pc EXCEPT ![c] = "fetch"]
          /\ fetchCount' = fetchCount + 1
          /\ invoked' = [invoked EXCEPT ![c] = TRUE]
          /\ UNCHANGED ret
     ELSE /\ pc' = [pc EXCEPT ![c] = "wait"]
          /\ UNCHANGED <<lock, lockOwner, fetchCount, invoked, ret>>
  /\ UNCHANGED <<status, kv, origin, client, data, pend, round, leaseLost, everDown,
                 quiet, envEvents, rt>>

\* the 200 ms sleep is over: `return this.cache(key, fetchFn, ttlSeconds)`
CacheRetry(c) ==
  /\ UNCHANGED after
  /\ waiter' = [waiter EXCEPT ![c] = IF rt.valid THEN "released" ELSE "waited"]
  /\ sawDown' = [sawDown EXCEPT ![c] = @ \/ ~EnsureRedisClient(status)]
  /\ pc[c] = "wait"
  /\ client' = [client EXCEPT ![c] = EnsureRedisClient(status)]
  /\ IF EnsureRedisClient(status)
     THEN /\ pc' = [pc EXCEPT ![c] = "get"]
          /\ UNCHANGED <<fetchCount, invoked>>
     ELSE /\ pc' = [pc EXCEPT ![c] = "fetch"]
          /\ fetchCount' = fetchCount + 1
          /\ invoked' = [invoked EXCEPT ![c] = TRUE]
  /\ UNCHANGED <<status, kv, lock, origin, data, pend, ret, round, lockOwner,
                 leaseLost, everDown, quiet, envEvents, rt>>

\* `const data = await fetchFn()` settles, with a value or with an error
CacheFetch(c) ==
  /\ UNCHANGED <<after, sawDown, waiter>>
  /\ pc[c] = "fetch"
  /\ \E ok \in BOOLEAN :
       IF ok
       THEN /\ data' = [data EXCEPT ![c] = origin]
            /\ IF client[c]
               THEN /\ pc' = [pc EXCEPT ![c] = "set"]
                    /\ UNCHANGED <<ret, pend>>
               ELSE /\ pc' = [pc EXCEPT ![c] = "done"]
                    /\ ret' = [ret EXCEPT ![c] = RetValue(origin)]
                    /\ UNCHANGED pend
            /\ UNCHANGED <<quiet, envEvents>>
       ELSE /\ envEvents < MaxEnvEvents
            /\ envEvents' = envEvents + 1
            /\ quiet' = FALSE
            /\ IF client[c]
               THEN /\ pc' = [pc EXCEPT ![c] = "del"]
                    /\ pend' = [pend EXCEPT ![c] = RetFetchError]
                    /\ UNCHANGED ret
               ELSE /\ pc' = [pc EXCEPT ![c] = "done"]
                    /\ ret' = [ret EXCEPT ![c] = RetFetchError]
                    /\ UNCHANGED pend
            /\ UNCHANGED data
  /\ UNCHANGED <<status, kv, lock, origin, client, round, lockOwner, fetchCount,
                 invoked, leaseLost, everDown, rt>>

\* `await this.set(key, JSON.stringify(data), ttlSeconds)`; `return data` waits for finally
CacheSet(c) ==
  /\ UNCHANGED <<after, waiter>>
  /\ sawDown' = [sawDown EXCEPT ![c] = @ \/ ~EnsureRedisClient(status)]
  /\ pc[c] = "set"
  /\ IF EnsureRedisClient(status)
     THEN /\ kv' = JSONstringify(data[c])
          /\ rt' = [rt EXCEPT !.clean = FALSE]
     ELSE UNCHANGED <<kv, rt>>
  /\ pend' = [pend EXCEPT ![c] = RetValue(data[c])]
  /\ pc' = [pc EXCEPT ![c] = "del"]
  /\ UNCHANGED <<status, lock, origin, client, data, ret, round, lockOwner, fetchCount,
                 invoked, leaseLost, everDown, quiet, envEvents>>

\* finally: `if (client) await client.del(lockKey)` on the raw client
CacheDel(c) ==
  /\ UNCHANGED <<after, waiter>>
  /\ sawDown' = [sawDown EXCEPT ![c] = @ \/ ~EnsureRedisClient(status)]
  /\ pc[c] = "del"
  /\ pc' = [pc EXCEPT ![c] = "done"]
  /\ IF EnsureRedisClient(status)
     THEN /\ lock' = FALSE
          /\ lockOwner' = 0
          /\ ret' = [ret EXCEPT ![c] = pend[c]]
          /\ Returned(c, pend[c], kv = JSONstringify(data[c]))
     ELSE /\ ret' = [ret EXCEPT ![c] = RetStoreError]
          /\ UNCHANGED <<lock, lockOwner, rt>>
  /\ UNCHANGED <<status, kv, origin, client, data, pend, round, fetchCount, invoked,
                 leaseLost, everDown, quiet, envEvents>>

(***************************************************************************)
(* Environment of cache()                                                  *)
(***************************************************************************)
EnvStep ==
  /\ envEvents < MaxEnvEvents
  /\ envEvents' = envEvents + 1

\* EX 10: a stored lock key runs out when its ten seconds are over
LeaseRunsOut_never(lk) == FALSE
LeaseRunsOut(lk) == lk

\* EX 10: the lease of the lock key runs out
LockExpire ==
  /\ UNCHANGED <<after, sawDown, waiter>>
  /\ LeaseRunsOut(lock)
  /\ EnvStep
  /\ lock' = FALSE
  /\ lockOwner' = 0
  /\ leaseLost' = IF lockOwner # 0 /\ InCrit(lockOwner) THEN leaseLost + 1 ELSE leaseLost
  /\ quiet' = FALSE
  /\ UNCHANGED <<status, kv, origin, pc, client, data, pend, ret, round, fetchCount,
                 invoked, everDown, rt>>

\* SETEX ttlSeconds: the entry runs out
KeyExpire ==
  /\ UNCHANGED <<after, sawDown>>
  /\ waiter' = [c \in Callers |-> IF waiter[c] = "released" THEN "waited" ELSE waiter[c]]
  /\ kv # NoVal
  /\ EnvStep
  /\ kv' = NoVal
  /\ quiet' = FALSE
  /\ rt' = [rt EXCEPT !.valid = FALSE]
  /\ UNCHANGED <<status, lock, origin, pc, client, data, pend, ret, round, lockOwner,
                 fetchCount, invoked, leaseLost, everDown>>

\* the write path: `this.redisService.del(key)`
Invalidate ==
  /\ UNCHANGED <<after, sawDown, waiter>>
  /\ EnvStep
  /\ kv' = IF EnsureRedisClient(status) THEN NoVal ELSE kv
  /\ quiet' = FALSE
  /\ rt' = [rt EXCEPT !.valid = FALSE]
  /\ UNCHANGED <<status, lock, origin, pc, client, data, pend, ret, round, lockOwner,
                 fetchCount, invoked, leaseLost, everDown>>

\* the store of record changes
OriginWrite ==
  /\ UNCHANGED <<after, sawDown, waiter>>
  /\ EnvStep
  /\ \E v \in OriginValues \ {origin} : origin' = v
  /\ UNCHANGED <<status, kv, lock, pc, client, data, pend, ret, round, lockOwner,
                 fetchCount, invoked, leaseLost, everDown, quiet, rt>>

\* the connection leaves or regains the 'ready' status
StoreDown ==
  /\ UNCHANGED <<after, sawDown>>
  /\ waiter' = [c \in Callers |-> IF waiter[c] = "released" THEN "waited" ELSE waiter[c]]
  /\ status = "ready"
  /\ EnvStep
  /\ status' = "down"
  /\ everDown' = TRUE
  /\ rt' = [rt EXCEPT !.valid = FALSE]
  /\ UNCHANGED <<kv, lock, origin, pc, client, data, pend, ret, round, lockOwner,
                 fetchCount, invoked, leaseLost, quiet>>

StoreUp ==
  /\ UNCHANGED <<after, sawDown, waiter>>
  /\ status = "down"
  /\ status' = "ready"
  /\ UNCHANGED <<kv, lock, origin, pc, client, data, pend, ret, round, lockOwner,
                 fetchCount, invoked, leaseLost, everDown, quiet, envEvents, rt>>

\* the process of a lock holder dies inside the try block: its finally never runs
Crash(c) ==
  /\ InCrit(c)
  /\ EnvStep
  /\ pc' = [pc EXCEPT ![c] = "crashed"]
  /\ UNCHANGED <<status, kv, lock, origin, client, data, pend, ret, round, lockOwner,
                 fetchCount, invoked, leaseLost, everDown, quiet, sawDown, after, rt,
                 waiter>>

\* EX 10, however many events came before: the lock key is gone ten seconds
\* after its SET NX
LeaseEnd ==
  /\ LeaseRunsOut(lock)
  /\ lock' = FALSE
  /\ lockOwner' = 0
  /\ leaseLost' = IF lockOwner # 0 /\ InCrit(lockOwner) THEN leaseLost + 1 ELSE leaseLost
  /\ quiet' = FALSE
  /\ UNCHANGED <<status, kv, origin, pc, client, data, pend, ret, round, fetchCount,
                 invoked, everDown, envEvents, sawDown, after, rt, waiter>>

\* the next step of caller c inside cache()
CallerStep(c) ==
  /\ \/ CacheGet(c)
     \/ CacheSetNX(c)
     \/ CacheRetry(c)
     \/ CacheFetch(c)
     \/ CacheSet(c)
     \/ CacheDel(c)
  /\ UNCHANGED <<rlVars, sagaVars, extVars>>

\* cache() with the store available throughout, holders that may die, and
\* leases that end
NextCacheLive ==
  \/ \E c \in Callers : CacheCall(c) /\ UNCHANGED <<rlVars, sagaVars, extVars>>
  \/ \E c \in Callers : CacheGet(c) /\ UNCHANGED <<rlVars, sagaVars, extVars>>
  \/ \E c \in Callers : CacheSetNX(c) /\ UNCHANGED <<rlVars, sagaVars, extVars>>
  \/ \E c \in Callers : CacheRetry(c) /\ UNCHANGED <<rlVars, sagaVars, extVars>>
  \/ \E c \in Callers : CacheFetch(c) /\ UNCHANGED <<rlVars, sagaVars, extVars>>
  \/ \E c \in Callers : CacheSet(c) /\ UNCHANGED <<rlVars, sagaVars, extVars>>
  \/ \E c \in Callers : CacheDel(c) /\ UNCHANGED <<rlVars, sagaVars, extVars>>
  \/ \E c \in Callers : Crash(c) /\ UNCHANGED <<rlVars, sagaVars, extVars>>
  \/ LeaseEnd /\ UNCHANGED <<rlVars, sagaVars, extVars>>

NextCache ==
  \/ \E c \in Callers : CacheCall(c) /\ UNCHANGED <<rlVars, sagaVars, extVars>>
  \/ \E c \in Callers : CacheGet(c) /\ UNCHANGED <<rlVars, sagaVars, extVars>>
  \/ \E c \in Callers : CacheSetNX(c) /\ UNCHANGED <<rlVars, sagaVars, extVars>>
  \/ \E c \in Callers : CacheRetry(c) /\ UNCHANGED <<rlVars, sagaVars, extVars>>
  \/ \E c \in Callers : CacheFetch(c) /\ UNCHANGED <<rlVars, sagaVars, extVars>>
  \/ \E c \in Callers : CacheSet(c) /\ UNCHANGED <<rlVars, sagaVars, extVars>>
  \/ \E c \in Callers : CacheDel(c) /\ UNCHANGED <<rlVars, sagaVars, extVars>>
  \/ LockExpire /\ UNCHANGED <<rlVars, sagaVars, extVars>>
  \/ KeyExpire /\ UNCHANGED <<rlVars, sagaVars, extVars>>
  \/ Invalidate /\ UNCHANGED <<rlVars, sagaVars, extVars>>
  \/ OriginWrite /\ UNCHANGED <<rlVars, sagaVars, extVars>>
  \/ StoreDown /\ UNCHANGED <<rlVars, sagaVars, extVars>>
  \/ StoreUp /\ UNCHANGED <<rlVars, sagaVars, extVars>>

(***************************************************************************)
(* RedisService.checkRateLimit                                             *)
(***************************************************************************)
RECURSIVE SumOver(_, _)
SumOver(z, S) ==
  IF S = {} THEN 0
  ELSE LET t == CHOOSE x \in S : TRUE IN z[t] + SumOver(z, S \ {t})

EmptyZ == [t \in {} |-> 0]

\* ZREMRANGEBYSCORE key lo hi: drops the members whose score is in [lo, hi]
ZRemRangeByScore_strict(z, lo, hi) == [t \in {u \in DOMAIN z : ~(lo <= u /\ u < hi)} |-> z[t]]
ZRemRangeByScore_all(z, lo, hi) == EmptyZ
ZRemRangeByScore(z, lo, hi) == [t \in {u \in DOMAIN z : ~(lo <= u /\ u <= hi)} |-> z[t]]

\* ZCARD key
ZCard(z) == SumOver(z, DOMAIN z)

\* ZADD key now `${now}-${Math.random()}`: one more member with score now
ZAdd_none(z, score) == z
ZAdd(z, score) ==
  [t \in DOMAIN z \cup {score} |->
     IF t \in DOMAIN z THEN (IF t = score THEN z[t] + 1 ELSE z[t]) ELSE 1]

\* EXPIRE key Math.ceil(windowMs / 1000) + 1
CeilDiv(a, b) == (a + b - 1) \div b
ExpireSeconds_floor(w) == w \div MsPerSecond
ExpireSeconds(w) == CeilDiv(w, MsPerSecond) + ExpireSlackSeconds

\* `const requestsInWindow = currentCount + 1`
RequestsInWindow_plusTwo(currentCount) == currentCount + 2
RequestsInWindow(currentCount) == currentCount + 1

Max(a, b) == IF a >= b THEN a ELSE b

\* the result of a check that reached the store
StoreResult(now, currentCount, w, m) ==
  [allowed |-> RequestsInWindow(currentCount) <= m,
   remaining |-> Max(0, m - RequestsInWindow(currentCount)),
   reset |-> now + w,
   total |-> m,
   windowMs |-> w]

\* the fallback of both the missing client and the failed pipeline
FallbackResult_closed(now, w, m) ==
  [allowed |-> FALSE, remaining |-> 0, reset |-> now + w, total |-> m, windowMs |-> w]
FallbackResult(now, w, m) ==
  [allowed |-> TRUE, remaining |-> m, reset |-> now + w, total |-> m, windowMs |-> w]

PipelineOutcomes == {"ok", "null", "commandError", "throw"}

\* what a behaviour under the rule in force explores: the calls made, the
\* clock's steps and last value, and how long a pipeline may stay in flight
Exploration ==
  IF windowMs = ScenarioWindowMs
    THEN [calls |-> ScenarioCalls, steps |-> {ScenarioStep}, end |-> ScenarioEnd,
          delay |-> MaxDelay]
  ELSE IF windowMs = BurstWindowMs
    THEN [calls |-> BurstCalls, steps |-> ClockSteps, end |-> MaxClock,
          delay |-> BurstWindowMs]
    ELSE [calls |-> MaxRlCalls, steps |-> ClockSteps, end |-> MaxClock,
          delay |-> MaxDelay]

InFlight == {r \in Clients : rlPc[r] = "exec"}

NoCall == [res |-> FallbackResult(0, 0, 0), now |-> -1, gap |-> -1, path |-> "none"]

\* a call finishes with result res: the history moves on
Finish(res, now, path) ==
  /\ numCalls' = numCalls + 1
  /\ last' = [res |-> res, now |-> now, path |-> path,
               gap |-> IF lastNow = -1 THEN -1 ELSE now - lastNow]
  /\ prevRemaining' = IF numCalls = 0 THEN maxRequests ELSE last.res.remaining
  /\ allStore' = (allStore /\ path = "store")
  /\ firstNow' = IF firstNow = -1 \/ now < firstNow THEN now ELSE firstNow
  /\ lastNow' = IF now > lastNow THEN now ELSE lastNow
  /\ hist' = [prevAllowed |-> last.res.allowed,
               streak |-> IF lastNow # -1 /\ now >= lastNow
                             /\ (now - lastNow) * maxRequests < windowMs
                            THEN hist.streak + 1 ELSE 0,
               admitted |-> IF path = "store" /\ res.allowed
                              THEN ZAdd(hist.admitted, now) ELSE hist.admitted]

\* no call has been made under the rule in force
LimiterStart ==
  /\ clock = 0
  /\ zset = EmptyZ
  /\ zexpireAt = -1
  /\ rlPc = [r \in Clients |-> "idle"]
  /\ rlNow = [r \in Clients |-> 0]
  /\ numCalls = 0
  /\ last = NoCall
  /\ prevRemaining = maxRequests
  /\ allStore = TRUE
  /\ firstNow = -1
  /\ lastNow = -1
  /\ hist = [prevAllowed |-> TRUE, streak |-> 0, admitted |-> EmptyZ]

LimiterInit ==
  /\ windowMs \in Windows
  /\ maxRequests \in MaxRequestsChoices
  /\ LimiterStart

\* what the branch `if (!client)` does to the key's sorted set: it returns
\* before any command is built
NotReady_counted(z, now) == ZAdd(z, now)
NotReady(z, now) == z

\* checkRateLimit up to its first I/O: the client check, `now`, the pipeline is sent
RlCall(r) ==
  /\ rlPc[r] = "idle"
  /\ numCalls + Cardinality(InFlight) < Exploration.calls
  /\ IF ~EnsureRedisClient(status)
     THEN /\ Finish(FallbackResult(clock, windowMs, maxRequests), clock, "noClient")
          /\ zset' = NotReady(zset, clock)
          /\ UNCHANGED <<rlPc, rlNow>>
     ELSE /\ rlPc' = [rlPc EXCEPT ![r] = "exec"]
          /\ rlNow' = [rlNow EXCEPT ![r] = clock]
          /\ UNCHANGED <<numCalls, last, prevRemaining, allStore, firstNow, lastNow, hist,
                         zset>>
  /\ UNCHANGED <<clock, windowMs, maxRequests, zexpireAt>>

\* the store runs the four commands as one batch; `results` come back
RlExec(r) ==
  /\ rlPc[r] = "exec"
  /\ \E outcome \in PipelineOutcomes, applied \in BOOLEAN :
       /\ outcome = "ok" => (applied /\ EnsureRedisClient(status))
       /\ LET now == rlNow[r]
              windowStart == now - windowMs
              pruned == ZRemRangeByScore(zset, 0, windowStart)
              currentCount == ZCard(pruned)
          IN /\ zset' = IF applied THEN ZAdd(pruned, now) ELSE zset
             /\ zexpireAt' = IF applied THEN clock + ExpireSeconds(windowMs) * MsPerSecond
                             ELSE zexpireAt
             /\ IF outcome = "ok"
                THEN Finish(StoreResult(now, currentCount, windowMs, maxRequests),
                            now, "store")
                ELSE Finish(FallbackResult(now, windowMs, maxRequests),
                            now, "pipelineFailed")
  /\ rlPc' = [rlPc EXCEPT ![r] = "idle"]
  /\ UNCHANGED <<clock, windowMs, maxRequests, rlNow>>

\* time passes; a key whose EXPIRE has run out is gone
AdvanceClock ==
  /\ \E d \in Exploration.steps :
       /\ clock + d <= Exploration.end
       /\ \A r \in InFlight : clock + d - rlNow[r] <= Exploration.delay
       /\ clock' = clock + d
  /\ IF zexpireAt # -1 /\ clock' >= zexpireAt
     THEN zset' = EmptyZ /\ zexpireAt' = -1
     ELSE UNCHANGED <<zset, zexpireAt>>
  /\ UNCHANGED <<windowMs, maxRequests, rlPc, rlNow,
                 numCalls, last, prevRemaining, allStore, firstNow, lastNow, hist>>

NextLimiter ==
  \/ \E r \in Clients : RlCall(r) /\ UNCHANGED <<cacheVars, sagaVars, extVars>>
  \/ \E r \in Clients : RlExec(r) /\ UNCHANGED <<cacheVars, sagaVars, extVars>>
  \/ AdvanceClock /\ UNCHANGED <<cacheVars, sagaVars, extVars>>
  \/ StoreDown /\ UNCHANGED <<rlVars, sagaVars, extVars>>
  \/ StoreUp /\ UNCHANGED <<rlVars, sagaVars, extVars>>

\* the limiter at rest, for the behaviours of cache() alone
LimiterAtRest ==
  /\ LimiterInit
  /\ windowMs = 500
  /\ maxRequests = 1

(***************************************************************************)
(* Domain events and the event bus                                         *)
(***************************************************************************)
NoCat == "none"
NoSlug == "none"

\* A message of a product.* topic. `kind` is what handleMessage finds in
\* message.value: "null" (no value), "unparseable" (JSON.parse throws) or
\* "json", the text JSON.stringify made of an event object: its string
\* fields survive the round trip and an undefined oldCategoryId stays absent.
Message(topic, kind, id, cat, old) ==
  [topic |-> topic, kind |-> kind, id |-> id, cat |-> cat, old |-> old]

NoMsg == Message("none", "null", 0, NoCat, NoCat)

\* KafkaProducerService.send: `value: JSON.stringify(message)`
EventMessage(topic, id, cat, old) == Message(topic, "json", id, cat, old)

Topics == {"product.created", "product.updated", "product.deleted"}

WellFormed ==
  {EventMessage("product.created", i, c, NoCat) : i \in Ids, c \in Categories}
  \cup {EventMessage("product.updated", ic[1], ic[2], o) :
          ic \in Ids \X Categories, o \in Categories \cup {NoCat}}
  \cup {EventMessage("product.deleted", i, c, NoCat) : i \in Ids, c \in Categories}

Malformed ==
  {Message(t, k, 0, NoCat, NoCat) : t \in Topics, k \in {"null", "unparseable"}}

Messages == WellFormed \cup Malformed

RemoveAt(q, i) == SubSeq(q, 1, i - 1) \o SubSeq(q, i + 1, Len(q))

(***************************************************************************)
(* ProductConsumer                                                         *)
(***************************************************************************)
\* `if (!message?.value) return` and JSON.parse: only a JSON text reaches the switch
Parses_always(kind) == TRUE
Parses(kind) == kind = "json"

\* the `switch (topic)` of handleMessage
HandlerFor_created(topic) == "created"
HandlerFor_deleted(topic) == "deleted"
HandlerFor(topic) ==
  CASE topic = "product.created" -> "created"
    [] topic = "product.updated" -> "updated"
    [] topic = "product.deleted" -> "deleted"
    [] OTHER -> "return"

\* `event.oldCategoryId && event.oldCategoryId !== event.categoryId`
CategoryChanged_always(event) == TRUE
CategoryChanged(event) == event.old # NoCat /\ event.old # event.cat

\* the number of the delivery being handled
Delivery == Len(handled) + 1

\* a field the object does not have reads as undefined
Undefined == 0

\* the object the consumer hands to send: categoryId, productId,
\* productName, timestamp, and no `id`
CounterPayload(cat, pid) == [id |-> Undefined, categoryId |-> cat, productId |-> pid]

\* KafkaProducerService.send: `key: message.id`
PartitionKey(message) == message.id

Emission(dir, cat, pid, ok) ==
  [dir |-> dir, cat |-> cat, pid |-> pid, ok |-> ok, n |-> Delivery,
   key |-> PartitionKey(CounterPayload(cat, pid))]

\* the outcomes open to a call that can fail: failures are injected MaxFaults times
Outcomes == IF faults < MaxFaults THEN {TRUE, FALSE} ELSE {TRUE}
Fault(ok) == IF ok THEN 0 ELSE 1

ConsumerInit ==
  /\ inbox = <<>>
  /\ cpc = "idle"
  /\ cmsg = NoMsg
  /\ handled = <<>>
  /\ emitted = <<>>
  /\ notified = <<>>

\* the broker hands over one more message of the subscribed topics
Deliver(m) ==
  /\ Len(handled) + Len(inbox) + (IF cpc = "idle" THEN 0 ELSE 1) < MaxDeliveries
  /\ inbox' = Append(inbox, m)
  /\ UNCHANGED <<db, nextId, pcache, op, opsStarted, faults, cpc, cmsg,
                 handled, emitted, notified>>

\* handleMessage up to the call of a handler
HandleMessage ==
  /\ cpc = "idle"
  /\ \E i \in 1..Len(inbox) :
       /\ cmsg' = inbox[i]
       /\ inbox' = RemoveAt(inbox, i)
       /\ cpc' = IF Parses(inbox[i].kind) THEN HandlerFor(inbox[i].topic)
                                         ELSE "return"
  /\ UNCHANGED <<db, nextId, pcache, op, opsStarted, faults,
                 handled, emitted, notified>>

\* where a handler is after a rejected send: in its catch block, which logs
\* and lets the handler return
Catch_rethrow == "threw"
Catch == "return"

\* handleProductCreated: the statements after `await send(...)` in the try
\* block run when the send resolved
Notifies_always(ok) == TRUE
Notifies(ok) == ok

HandleProductCreated ==
  /\ cpc = "created"
  /\ \E ok \in Outcomes :
       /\ emitted' = Append(emitted, Emission("increment", cmsg.cat, cmsg.id, ok))
       /\ IF Notifies(ok)
            THEN \E sent \in Outcomes :
                   /\ notified' = Append(notified,
                                    [pid |-> cmsg.id, ok |-> sent, n |-> Delivery])
                   /\ faults' = faults + Fault(ok) + Fault(sent)
            ELSE /\ notified' = notified
                 /\ faults' = faults + 1
       /\ cpc' = IF ok THEN "return" ELSE Catch
  /\ UNCHANGED <<db, nextId, pcache, op, opsStarted, inbox, cmsg, handled>>

\* where handleProductUpdated goes after its first send: on to the second
\* send, or into the catch
AfterDecrement_always(ok) == "updatedIncrement"
AfterDecrement(ok) == IF ok THEN "updatedIncrement" ELSE Catch

\* handleProductUpdated up to the end of its first send
HandleProductUpdated ==
  /\ cpc = "updated"
  /\ IF CategoryChanged(cmsg)
       THEN \E ok \in Outcomes :
              /\ emitted' = Append(emitted, Emission("decrement", cmsg.old, cmsg.id, ok))
              /\ faults' = faults + Fault(ok)
              /\ cpc' = AfterDecrement(ok)
       ELSE /\ cpc' = "return"
            /\ UNCHANGED <<emitted, faults>>
  /\ UNCHANGED <<db, nextId, pcache, op, opsStarted, inbox, cmsg, handled, notified>>

\* where handleProductUpdated goes after its second send: past the log
\* line, or into the catch, which only logs
AfterIncrement_retry(ok) == IF ok THEN "return" ELSE "updatedIncrement"
AfterIncrement(ok) == IF ok THEN "return" ELSE Catch

\* handleProductUpdated: its second send
HandleProductUpdatedIncrement ==
  /\ cpc = "updatedIncrement"
  /\ \E ok \in Outcomes :
       /\ emitted' = Append(emitted, Emission("increment", cmsg.cat, cmsg.id, ok))
       /\ faults' = faults + Fault(ok)
       /\ cpc' = AfterIncrement(ok)
  /\ UNCHANGED <<db, nextId, pcache, op, opsStarted, inbox, cmsg, handled, notified>>

HandleProductDeleted ==
  /\ cpc = "deleted"
  /\ \E ok \in Outcomes :
       /\ emitted' = Append(emitted, Emission("decrement", cmsg.cat, cmsg.id, ok))
       /\ faults' = faults + Fault(ok)
       /\ cpc' = IF ok THEN "return" ELSE Catch
  /\ UNCHANGED <<db, nextId, pcache, op, opsStarted, inbox, cmsg, handled, notified>>

\* handleMessage returns to the consume loop
HandleMessageReturn ==
  /\ cpc = "return"
  /\ handled' = Append(handled, cmsg)
  /\ cpc' = "idle"
  /\ cmsg' = NoMsg
  /\ UNCHANGED <<db, nextId, pcache, op, opsStarted, faults, inbox, emitted, notified>>

(***************************************************************************)
(* ProductService.create / update / delete                                 *)
(***************************************************************************)
Row(cat, slug) == [present |-> TRUE, cat |-> cat, slug |-> slug]
NoRow == [present |-> FALSE, cat |-> NoCat, slug |-> NoSlug]

\* prisma.product.findUnique({ where: { slug } })
FindBySlug(table, slug) == {i \in Ids : table[i].present /\ table[i].slug = slug}

\* what `throw new ConflictException(..)` raises: product.service.ts imports
\* Injectable, Logger and NotFoundException only, so evaluating the name
\* ConflictException raises a ReferenceError
ConflictThrown == "ReferenceError"

\* `data: dto` of prisma.product.update: the fields the dto carries replace the row's
Merge(row, dcat, dslug) ==
  Row(IF dcat = NoCat THEN row.cat ELSE dcat,
      IF dslug = NoSlug THEN row.slug ELSE dslug)

NoOp ==
  [kind |-> "none", id |-> 0, dcat |-> NoCat, dslug |-> NoSlug, pc |-> "done",
   cur |-> NoRow, res |-> NoRow, out |-> "none", trace |-> <<>>, pub |-> <<>>]

Running(w) == op[w].pc # "done"

ServiceInit ==
  /\ db = [i \in Ids |-> NoRow]
  /\ nextId = 1
  /\ pcache = [i \in Ids |-> FALSE]
  /\ op = [w \in Workers |-> NoOp]
  /\ opsStarted = 0
  /\ faults = 0

\* The workers are interchangeable: a new call goes to the first idle one.
Begin(w, kind, id, dcat, dslug) ==
  /\ ~Running(w)
  /\ \A v \in Workers : v < w => Running(v)
  /\ opsStarted < MaxOps
  /\ opsStarted' = opsStarted + 1
  /\ op' = [op EXCEPT ![w] = [NoOp EXCEPT !.kind = kind, !.id = id, !.dcat = dcat,
                                         !.dslug = dslug, !.pc = "find"]]
  /\ UNCHANGED <<db, nextId, pcache, faults, inbox, cpc, cmsg, handled, emitted, notified>>

\* the operation ends: it rejects with `out`, or resolves when out = "ok"
\* (its locals go out of scope)
End(w, out) ==
  [op[w] EXCEPT !.pc = "done", !.out = out, !.dcat = NoCat, !.dslug = NoSlug,
                !.cur = NoRow, !.res = NoRow]

ServiceFrame == UNCHANGED <<opsStarted, cpc, cmsg, handled, emitted, notified>>

\* ids still free for the creates that are under way
FreeIds == NumProducts - (nextId - 1)
            - Cardinality({v \in Workers : op[v].kind = "create"
                                           /\ op[v].pc \in {"find", "store"}})

CreateCall(w) ==
  /\ FreeIds > 0
  /\ \E c \in Categories, sl \in Slugs : Begin(w, "create", 0, c, sl)

UpdateCall(w) ==
  \E i \in Ids, c \in Categories \cup {NoCat}, sl \in Slugs \cup {NoSlug} :
    Begin(w, "update", i, c, sl)

DeleteCall(w) ==
  \E i \in Ids : Begin(w, "delete", i, NoCat, NoSlug)

\* create: the uniqueness check
CreateFind(w) ==
  /\ op[w].kind = "create" /\ op[w].pc = "find"
  /\ op' = [op EXCEPT ![w] =
              IF FindBySlug(db, op[w].dslug) # {}
                THEN End(w, ConflictThrown)
                ELSE [op[w] EXCEPT !.pc = "store"]]
  /\ UNCHANGED <<db, nextId, pcache, faults, inbox>>
  /\ ServiceFrame

\* create: prisma.product.create. It fails on the unique index of slug or by
\* an injected failure of the database.
CreateStore(w) ==
  /\ op[w].kind = "create" /\ op[w].pc = "store"
  /\ \E ok \in Outcomes :
       IF ok /\ FindBySlug(db, op[w].dslug) = {}
         THEN /\ db' = [db EXCEPT ![nextId] = Row(op[w].dcat, op[w].dslug)]
              /\ nextId' = nextId + 1
              /\ op' = [op EXCEPT ![w] =
                          [op[w] EXCEPT !.id = nextId,
                                        !.res = Row(op[w].dcat, op[w].dslug),
                                        !.trace = Append(@, "store"),
                                        !.pc = "cache"]]
              /\ faults' = faults
         ELSE /\ op' = [op EXCEPT ![w] = End(w, "DbError")]
              /\ faults' = faults + Fault(ok)
              /\ UNCHANGED <<db, nextId>>
  /\ UNCHANGED <<pcache, inbox>>
  /\ ServiceFrame

\* create: Promise.all of invalidateListCache and the two redisService.set
CreateCache(w) ==
  /\ op[w].kind = "create" /\ op[w].pc = "cache"
  /\ pcache' = IF EnsureRedisClient(status)
                 THEN [pcache EXCEPT ![op[w].id] = TRUE] ELSE pcache
  /\ op' = [op EXCEPT ![w] = [op[w] EXCEPT !.trace = Append(@, "cache"), !.pc = "send"]]
  /\ UNCHANGED <<db, nextId, faults, inbox>>
  /\ ServiceFrame

\* KafkaProducerService.send rethrows what producer.send rejected with
SendOutcome_swallowed(ok) == "ok"
SendOutcome(ok) == IF ok THEN "ok" ELSE "PublishError"

\* kafkaProducer.send of the write path: resolves after the broker took the
\* message, or rejects
Publish(w, m) ==
  /\ op[w].pc = "send"
  /\ \E ok \in Outcomes :
       /\ faults' = faults + Fault(ok)
       /\ IF ok
            THEN /\ inbox' = Append(inbox, m)
                 /\ op' = [op EXCEPT ![w] =
                             [End(w, SendOutcome(ok)) EXCEPT
                                !.trace = Append(@, "publish"), !.pub = Append(@, m)]]
            ELSE /\ inbox' = inbox
                 /\ op' = [op EXCEPT ![w] = End(w, SendOutcome(ok))]
  /\ UNCHANGED <<db, nextId, pcache>>
  /\ ServiceFrame

CreateSend(w) ==
  /\ op[w].kind = "create"
  /\ Publish(w, EventMessage("product.created", op[w].id, op[w].res.cat, NoCat))

\* update: read of the current row
UpdateFind(w) ==
  /\ op[w].kind = "update" /\ op[w].pc = "find"
  /\ op' = [op EXCEPT ![w] =
              IF ~db[op[w].id].present
                THEN End(w, "NotFound")
                ELSE [op[w] EXCEPT !.cur = db[op[w].id],
                                   !.pc = IF op[w].dslug # NoSlug
                                             /\ op[w].dslug # db[op[w].id].slug
                                          THEN "slug" ELSE "store"]]
  /\ UNCHANGED <<db, nextId, pcache, faults, inbox>>
  /\ ServiceFrame

\* update: the uniqueness check of a changed slug
UpdateSlugCheck(w) ==
  /\ op[w].kind = "update" /\ op[w].pc = "slug"
  /\ op' = [op EXCEPT ![w] =
              IF FindBySlug(db, op[w].dslug) # {}
                THEN End(w, ConflictThrown)
                ELSE [op[w] EXCEPT !.pc = "store"]]
  /\ UNCHANGED <<db, nextId, pcache, faults, inbox>>
  /\ ServiceFrame

\* update: prisma.product.update. It fails when the row is gone, on the
\* unique index of slug, or by an injected failure of the database.
UpdateStore(w) ==
  /\ op[w].kind = "update" /\ op[w].pc = "store"
  /\ \E ok \in Outcomes :
       LET id == op[w].id
           new == Merge(db[id], op[w].dcat, op[w].dslug)
       IN IF ok /\ db[id].present /\ FindBySlug(db, new.slug) \subseteq {id}
            THEN /\ db' = [db EXCEPT ![id] = new]
                 /\ op' = [op EXCEPT ![w] =
                             [op[w] EXCEPT !.res = new,
                                           !.trace = Append(@, "store"),
                                           !.pc = "cache"]]
                 /\ faults' = faults
            ELSE /\ op' = [op EXCEPT ![w] = End(w, "DbError")]
                 /\ faults' = faults + Fault(ok)
                 /\ db' = db
  /\ UNCHANGED <<nextId, pcache, inbox>>
  /\ ServiceFrame

\* update and delete: Promise.all of redisService.del and invalidateListCache
DropCache(w) ==
  /\ op[w].pc = "cache"
  /\ pcache' = IF EnsureRedisClient(status)
                 THEN [pcache EXCEPT ![op[w].id] = FALSE] ELSE pcache
  /\ op' = [op EXCEPT ![w] = [op[w] EXCEPT !.trace = Append(@, "cache"), !.pc = "send"]]
  /\ UNCHANGED <<db, nextId, faults, inbox>>
  /\ ServiceFrame

UpdateCache(w) == op[w].kind = "update" /\ DropCache(w)

UpdateSend(w) ==
  /\ op[w].kind = "update"
  /\ Publish(w, EventMessage("product.updated", op[w].id, op[w].res.cat, op[w].cur.cat))

\* delete: read of the row
DeleteFind(w) ==
  /\ op[w].kind = "delete" /\ op[w].pc = "find"
  /\ op' = [op EXCEPT ![w] =
              IF ~db[op[w].id].present
                THEN End(w, "NotFound")
                ELSE [op[w] EXCEPT !.cur = db[op[w].id], !.pc = "store"]]
  /\ UNCHANGED <<db, nextId, pcache, faults, inbox>>
  /\ ServiceFrame

\* delete: prisma.product.delete. It fails when the row is gone or by an
\* injected failure of the database.
DeleteStore(w) ==
  /\ op[w].kind = "delete" /\ op[w].pc = "store"
  /\ \E ok \in Outcomes :
       LET id == op[w].id
       IN IF ok /\ db[id].present
            THEN /\ db' = [db EXCEPT ![id] = NoRow]
                 /\ op' = [op EXCEPT ![w] =
                             [op[w] EXCEPT !.res = db[id],
                                           !.trace = Append(@, "store"),
                                           !.pc = "cache"]]
                 /\ faults' = faults
            ELSE /\ op' = [op EXCEPT ![w] = End(w, "DbError")]
                 /\ faults' = faults + Fault(ok)
                 /\ db' = db
  /\ UNCHANGED <<nextId, pcache, inbox>>
  /\ ServiceFrame

DeleteCache(w) == op[w].kind = "delete" /\ DropCache(w)

DeleteSend(w) ==
  /\ op[w].kind = "delete"
  /\ Publish(w, EventMessage("product.deleted", op[w].id, op[w].cur.cat, NoCat))

(***************************************************************************)
(* KafkaProducerService.onModuleInit                                       *)
(***************************************************************************)
\* `while (retries < maxRetries)`
LoopContinues_forever(retries) == TRUE
LoopContinues(retries) == retries < MaxRetries

NotStarted == [pc |-> "init", retries |-> 0, attempts |-> 0, waitedMs |-> 0]

StartupInit == pst = [p \in Producers |-> NotStarted]

\* Nest calls the hook
OnModuleInit(p) ==
  /\ pst[p].pc = "init"
  /\ pst' = [pst EXCEPT ![p].pc = "loop"]

\* one pass of the loop up to the end of `await this.producer.connect()`:
\* on success the hook returns; on failure `retries++`, and the backoff
\* follows only `if (retries < maxRetries)`
Connect(p) ==
  /\ pst[p].pc = "loop"
  /\ pst[p].attempts < MaxAttemptsCap
  /\ IF LoopContinues(pst[p].retries)
       THEN \E ok \in BOOLEAN :
              pst' = [pst EXCEPT
                        ![p].attempts = @ + 1,
                        ![p].retries = IF ok THEN @ ELSE @ + 1,
                        ![p].pc = IF ok THEN "connected"
                                  ELSE IF pst[p].retries + 1 < MaxRetries
                                         THEN "backoff" ELSE "loop"]
       ELSE pst' = [pst EXCEPT ![p].pc = "gaveUp"]

\* `await new Promise((res) => setTimeout(res, 3000))`
Backoff(p) ==
  /\ pst[p].pc = "backoff"
  /\ pst' = [pst EXCEPT ![p].waitedMs = @ + BackoffMs, ![p].pc = "loop"]

NextStartup ==
  \/ \E p \in Producers : OnModuleInit(p) /\ UNCHANGED <<cacheVars, rlVars, sagaVars, writeVars, bulkVars, guardVars, storeVars>>
  \/ \E p \in Producers : Connect(p) /\ UNCHANGED <<cacheVars, rlVars, sagaVars, writeVars, bulkVars, guardVars, storeVars>>
  \/ \E p \in Producers : Backoff(p) /\ UNCHANGED <<cacheVars, rlVars, sagaVars, writeVars, bulkVars, guardVars, storeVars>>

(***************************************************************************)
(* bulkRateLimit                                                           *)
(***************************************************************************)
Identifiers == {"ip:1", "ip:2"}

\* `identifiers: string[]`, an array of unique ids
Batches == {<<"ip:1">>, <<"ip:2">>, <<"ip:1", "ip:2">>, <<"ip:2", "ip:1">>}

IdsOf(batch) == {batch[i] : i \in DOMAIN batch}

\* `undefined + 1`, and what Math.max(0, NaN) and `new Date(...)` keep of it
NaN == -1

NoBulk == [ids |-> <<>>, now |-> -1]

EmptyMap == [id \in {} |-> FallbackResult(0, 0, 0)]

\* the set under the key of id once its EXPIRE is taken into account
LiveSet(id) ==
  IF bexpireAt[id] # -1 /\ clock >= bexpireAt[id] THEN EmptyZ ELSE bzset[id]

\* the entry made from the ZCARD slot of one identifier: an error slot
\* [err, undefined] is read like any other
BulkEntry(now, live, slotFailed, w, m) ==
  IF slotFailed
    THEN [allowed |-> FALSE, remaining |-> NaN, reset |-> now + w,
          total |-> m, windowMs |-> w]
    ELSE StoreResult(now, ZCard(ZRemRangeByScore(live, 0, now - w)), w, m)

BulkInit ==
  /\ bzset = [id \in Identifiers |-> EmptyZ]
  /\ bexpireAt = [id \in Identifiers |-> -1]
  /\ bcall = NoBulk
  /\ bret = [ids |-> <<>>, now |-> -1, map |-> EmptyMap, path |-> "none",
             found |-> [id \in Identifiers |-> EmptyZ], failed |-> {}]
  /\ bcalls = 0

BulkReturn(ids, now, map, path, found, failed) ==
  /\ bret' = [ids |-> ids, now |-> now, map |-> map, path |-> path,
              found |-> found, failed |-> failed]
  /\ bcalls' = bcalls + 1

\* bulkRateLimit up to `await pipeline.exec()`
BulkCall ==
  /\ bcall = NoBulk
  /\ bcalls < MaxBulkCalls
  /\ \E batch \in Batches :
       IF ~EnsureRedisClient(status)
         THEN /\ BulkReturn(batch, clock,
                            [id \in IdsOf(batch) |->
                               FallbackResult(clock, windowMs, maxRequests)],
                            "noClient", [id \in Identifiers |-> LiveSet(id)], {})
              /\ UNCHANGED bcall
         ELSE /\ bcall' = [ids |-> batch, now |-> clock]
              /\ UNCHANGED <<bret, bcalls>>
  /\ UNCHANGED <<bzset, bexpireAt>>

\* the store runs the pipeline, four commands per identifier; the results
\* are read in the try block, whose catch only logs
BulkExec ==
  /\ bcall # NoBulk
  /\ \E outcome \in PipelineOutcomes, applied \in BOOLEAN, k \in IdsOf(bcall.ids) :
       /\ outcome \in {"ok", "commandError"} => (applied /\ EnsureRedisClient(status))
       /\ LET now == bcall.now
              ids == IdsOf(bcall.ids)
              failed == IF outcome = "commandError" THEN {k} ELSE {}
              touched == IF applied THEN ids \ failed ELSE {}
              found == [id \in Identifiers |-> LiveSet(id)]
          IN /\ bzset' = [id \in Identifiers |->
                            IF id \in touched
                              THEN ZAdd(ZRemRangeByScore(found[id], 0, now - windowMs), now)
                              ELSE bzset[id]]
             /\ bexpireAt' = [id \in Identifiers |->
                                IF id \in touched
                                  THEN clock + ExpireSeconds(windowMs) * MsPerSecond
                                  ELSE bexpireAt[id]]
             /\ IF outcome \in {"ok", "commandError"}
                  THEN BulkReturn(bcall.ids, now,
                                  [id \in ids |->
                                     BulkEntry(now, found[id], id \in failed,
                                               windowMs, maxRequests)],
                                  IF failed = {} THEN "store" ELSE "commandError",
                                  found, failed)
                  ELSE BulkReturn(bcall.ids, now, EmptyMap, outcome, found, failed)
  /\ bcall' = NoBulk

NextBulk ==
  \/ BulkCall /\ UNCHANGED <<cacheVars, rlVars, sagaVars, writeVars, startVars, guardVars, storeVars>>
  \/ BulkExec /\ UNCHANGED <<cacheVars, rlVars, sagaVars, writeVars, startVars, guardVars, storeVars>>
  \/ AdvanceClock /\ UNCHANGED <<cacheVars, sagaVars, extVars>>
  \/ StoreDown /\ UNCHANGED <<rlVars, sagaVars, extVars>>
  \/ StoreUp /\ UNCHANGED <<rlVars, sagaVars, extVars>>

(***************************************************************************)
(* RateLimitGuard.canActivate, on the HTTP execution context of a          *)
(* controller's request                                                    *)
(***************************************************************************)
NoOutcome ==
  [kind |-> "none", consulted |-> FALSE, res |-> FallbackResult(0, 0, 0),
   statusCode |-> 0, message |-> "none", retryAfter |-> 0, remaining |-> 0,
   reset |-> 0, limit |-> 0]

\* `return true`
Admitted(consulted, res) ==
  [kind |-> "admitted", consulted |-> consulted, res |-> res,
   statusCode |-> 0, message |-> "none", retryAfter |-> 0, remaining |-> 0,
   reset |-> 0, limit |-> 0]

\* `throw new HttpException({...}, HttpStatus.TOO_MANY_REQUESTS)`
Rejected(res, dateNow) ==
  [kind |-> "rejected", consulted |-> TRUE, res |-> res,
   statusCode |-> TooManyRequests, message |-> "Too many requests",
   retryAfter |-> CeilDiv(res.reset - dateNow, MsPerSecond),
   remaining |-> res.remaining, reset |-> res.reset, limit |-> res.total]

\* the end of canActivate once checkRateLimit has returned `result`
Verdict_admitAll(res, dateNow) == Admitted(TRUE, res)
Verdict(res, dateNow) ==
  IF ~res.allowed THEN Rejected(res, dateNow) ELSE Admitted(TRUE, res)

GuardInit ==
  /\ gpc = [r \in Clients |-> "idle"]
  /\ gout = NoOutcome
  /\ gstat = [done |-> 0, unlimited |-> 0]

\* canActivate up to its first I/O. Without options on the handler or its
\* class it returns true at once; with options it calls checkRateLimit with
\* the rule, which answers at once when the client is not ready
CanActivate(r) ==
  /\ gpc[r] = "idle"
  /\ \E options \in BOOLEAN :
       IF ~options
         THEN /\ gstat.unlimited < MaxUnlimited
              /\ gout' = Admitted(FALSE, FallbackResult(0, 0, 0))
              /\ gstat' = [done |-> gstat.done + 1, unlimited |-> gstat.unlimited + 1]
              /\ UNCHANGED <<gpc, rlVars>>
         ELSE /\ RlCall(r)
              /\ IF ~EnsureRedisClient(status)
                   THEN /\ gout' = Verdict(last'.res, clock)
                        /\ gstat' = [gstat EXCEPT !.done = @ + 1]
                        /\ UNCHANGED gpc
                   ELSE /\ gpc' = [gpc EXCEPT ![r] = "await"]
                        /\ UNCHANGED <<gout, gstat>>

\* checkRateLimit returns from the store; the headers are set and the
\* request is admitted or rejected
CanActivateResult(r) ==
  /\ gpc[r] = "await"
  /\ RlExec(r)
  /\ gout' = Verdict(last'.res, clock)
  /\ gstat' = [gstat EXCEPT !.done = @ + 1]
  /\ gpc' = [gpc EXCEPT ![r] = "idle"]

NextGuard ==
  \/ \E r \in Clients : CanActivate(r)
                        /\ UNCHANGED <<cacheVars, sagaVars, writeVars, startVars, bulkVars, storeVars>>
  \/ \E r \in Clients : CanActivateResult(r)
                        /\ UNCHANGED <<cacheVars, sagaVars, writeVars, startVars, bulkVars, storeVars>>
  \/ AdvanceClock /\ UNCHANGED <<cacheVars, sagaVars, extVars>>
  \/ StoreDown /\ UNCHANGED <<rlVars, sagaVars, extVars>>
  \/ StoreUp /\ UNCHANGED <<rlVars, sagaVars, extVars>>

(***************************************************************************)
(* The wrappers of single commands: get, set, del, exists,                 *)
(* invalidatePattern                                                       *)
(***************************************************************************)
\* `keyPrefix: this.configService.get('REDIS_KEY_PREFIX', 'default:')`
KeyPrefixes == {<<"default:">>, <<>>}

\* keys the service uses, as sequences of name segments
StoreKeys == {<<"product:", "1">>, <<"products:", "all">>}
StoreStrings == {"v1", "v2"}
Patterns == {<<"products:", "*">>, <<"product:", "*">>, <<"*">>}
StoreOps == {"get", "set", "del", "exists", "invalidatePattern"}

\* ioredis puts keyPrefix before the key arguments of a command
Prefixed(k) == keyPrefix \o k

\* glob match of a key name: `*` stands for whatever follows
RECURSIVE Glob(_, _)
Glob(pattern, name) ==
  IF pattern = <<>> THEN name = <<>>
  ELSE IF Head(pattern) = "*" THEN TRUE
  ELSE /\ name # <<>>
       /\ Head(pattern) = Head(name)
       /\ Glob(Tail(pattern), Tail(name))

\* KEYS pattern: the pattern is not a key argument and goes out as written;
\* the names come back as the server holds them
Keys(pattern) == {n \in DOMAIN mem : Glob(pattern, n)}

\* DEL k1 k2 ...: key arguments
Del(ks) == [n \in DOMAIN mem \ {Prefixed(k) : k \in ks} |-> mem[n]]

NoStoreCall == [op |-> "none", key |-> <<>>, value |-> "none"]

\* what the caller gets when the command went through
Answer(call) ==
  CASE call.op = "get" ->
         IF Prefixed(call.key) \in DOMAIN mem THEN mem[Prefixed(call.key)] ELSE "null"
    [] call.op = "exists" ->
         IF Prefixed(call.key) \in DOMAIN mem THEN "true" ELSE "false"
    [] OTHER -> "undefined"

\* the store after the command
Effect(call) ==
  CASE call.op = "set" ->
         [n \in DOMAIN mem \cup {Prefixed(call.key)} |->
            IF n = Prefixed(call.key) THEN call.value ELSE mem[n]]
    [] call.op = "del" -> Del({call.key})
    [] call.op = "invalidatePattern" ->
         IF Keys(call.key) # {} THEN Del(Keys(call.key)) ELSE mem
    [] OTHER -> mem

\* `if (!client) return ...` and the catch blocks
Caught_rethrown(cmd) == [kind |-> "threw", value |-> "error"]
Caught(cmd) ==
  [kind |-> "returned",
   value |-> CASE cmd = "get" -> "null"
               [] cmd = "exists" -> "false"
               [] OTHER -> "undefined"]

StoreInit ==
  /\ keyPrefix \in KeyPrefixes
  /\ mem = [n \in {} |-> "none"]
  /\ scall = NoStoreCall
  /\ sret = [op |-> "none", cause |-> "none", kind |-> "none", value |-> "none"]
  /\ scalls = 0

StoreReturn(cmd, cause, result) ==
  /\ sret' = [op |-> cmd, cause |-> cause, kind |-> result.kind, value |-> result.value]
  /\ scalls' = scalls + 1

\* a wrapper up to its command: `const client = await this.ensureRedisClient()`
StoreCall ==
  /\ scall = NoStoreCall
  /\ scalls < MaxStoreCalls
  /\ \E cmd \in StoreOps, k \in StoreKeys \cup Patterns, v \in StoreStrings :
       /\ IF cmd = "invalidatePattern" THEN k \in Patterns ELSE k \in StoreKeys
       /\ cmd # "set" => v = "v1"
       /\ IF ~EnsureRedisClient(status)
            THEN /\ StoreReturn(cmd, IF status = "absent" THEN "absent" ELSE "notReady",
                                Caught(cmd))
                 /\ UNCHANGED scall
            ELSE /\ scall' = [op |-> cmd, key |-> k,
                              value |-> IF cmd = "set" THEN v ELSE "none"]
                 /\ UNCHANGED <<sret, scalls>>
  /\ UNCHANGED <<keyPrefix, mem>>

\* the command (for invalidatePattern: KEYS, then DEL of what it found) is
\* answered, or is rejected and caught
StoreCommand ==
  /\ scall # NoStoreCall
  /\ \E failed \in BOOLEAN :
       /\ ~EnsureRedisClient(status) => failed
       /\ IF failed
            THEN /\ StoreReturn(scall.op, "commandFailed", Caught(scall.op))
                 /\ UNCHANGED mem
            ELSE /\ StoreReturn(scall.op, "ok",
                                [kind |-> "returned", value |-> Answer(scall)])
                 /\ mem' = Effect(scall)
  /\ scall' = NoStoreCall
  /\ UNCHANGED keyPrefix

NextStore ==
  \/ StoreCall /\ UNCHANGED <<cacheVars, rlVars, sagaVars, writeVars, startVars, bulkVars, guardVars>>
  \/ StoreCommand /\ UNCHANGED <<cacheVars, rlVars, sagaVars, writeVars, startVars, bulkVars, guardVars>>
  \/ StoreDown /\ UNCHANGED <<rlVars, sagaVars, extVars>>
  \/ StoreUp /\ UNCHANGED <<rlVars, sagaVars, extVars>>

(***************************************************************************)
(* ProductService.update against byId readers; the list entries            *)
(***************************************************************************)
NoWrite == [kind |-> "none", cat |-> "none", to |-> "none", n |-> 0]

WriteInit ==
  /\ upd = "idle"
  /\ lret = NoWrite

\* the row after `prisma.product.update({ where: { id }, data: dto })`
Updated(row) == Entity(row.ver + 1)

\* update(): `const updated = await this.prisma.product.update(...)`
UpdateRow ==
  /\ upd = "idle"
  /\ origin # Null
  /\ origin' = Updated(origin)
  /\ upd' = "updated"
  /\ UNCHANGED <<status, kv, lock, pc, client, data, pend, ret, round, lockOwner,
                 fetchCount, invoked, leaseLost, everDown, quiet, envEvents, sawDown,
                 after, rt, waiter, lret>>

\* update(): `this.redisService.del(this.CACHE_KEYS.PRODUCT(id))`; what
\* follows in update() leaves the key alone
UpdateInvalidate ==
  /\ upd = "updated"
  /\ kv' = IF EnsureRedisClient(status) THEN NoVal ELSE kv
  /\ rt' = [rt EXCEPT !.valid = FALSE]
  /\ quiet' = FALSE
  /\ upd' = "done"
  /\ UNCHANGED <<status, lock, origin, pc, client, data, pend, ret, round, lockOwner,
                 fetchCount, invoked, leaseLost, everDown, envEvents, sawDown, after,
                 waiter, lret>>

\* update(id, dto) with byId(id) readers inside cache()
NextReaders ==
  \/ \E c \in Callers : CacheCall(c) /\ upd' = upd /\ UNCHANGED <<rlVars, sagaVars, startVars, bulkVars, guardVars, storeVars, lret>>
  \/ \E c \in Callers : CacheGet(c) /\ upd' = upd /\ UNCHANGED <<rlVars, sagaVars, startVars, bulkVars, guardVars, storeVars, lret>>
  \/ \E c \in Callers : CacheSetNX(c) /\ upd' = upd /\ UNCHANGED <<rlVars, sagaVars, startVars, bulkVars, guardVars, storeVars, lret>>
  \/ \E c \in Callers : CacheRetry(c) /\ upd' = upd /\ UNCHANGED <<rlVars, sagaVars, startVars, bulkVars, guardVars, storeVars, lret>>
  \/ \E c \in Callers : CacheFetch(c) /\ upd' = upd /\ UNCHANGED <<rlVars, sagaVars, startVars, bulkVars, guardVars, storeVars, lret>>
  \/ \E c \in Callers : CacheSet(c) /\ upd' = upd /\ UNCHANGED <<rlVars, sagaVars, startVars, bulkVars, guardVars, storeVars, lret>>
  \/ \E c \in Callers : CacheDel(c) /\ upd' = upd /\ UNCHANGED <<rlVars, sagaVars, startVars, bulkVars, guardVars, storeVars, lret>>
  \/ UpdateRow /\ UNCHANGED <<rlVars, sagaVars, startVars, bulkVars, guardVars, storeVars>>
  \/ UpdateInvalidate /\ UNCHANGED <<rlVars, sagaVars, startVars, bulkVars, guardVars, storeVars>>

\* CACHE_KEYS.ALL_PRODUCTS, CACHE_KEYS.CATEGORY_PRODUCTS(categoryId),
\* CACHE_KEYS.PRODUCT(id)
AllProducts == <<"products:", "all">>
CategoryProducts(categoryId) == <<"category:", categoryId, ":products">>
Product(id) == <<"product:", id>>
ListKeys == {AllProducts} \cup {CategoryProducts(c) : c \in Categories}
WriteKinds == {"create", "update", "delete"}

\* SET / DEL of key arguments on a store m
SetIn(m, k, v) ==
  [n \in DOMAIN m \cup {keyPrefix \o k} |-> IF n = keyPrefix \o k THEN v ELSE m[n]]
DelIn(m, ks) == [n \in DOMAIN m \ {keyPrefix \o k : k \in ks} |-> m[n]]

\* invalidatePattern on a store m: KEYS pattern, then DEL of the names found
InvalidatePattern(m, pattern) ==
  LET keys == {n \in DOMAIN m : Glob(pattern, n)}
  IN IF keys # {} THEN DelIn(m, keys) ELSE m

\* the first invalidateListCache of the class: the two entries by name
InvalidateListCache_byName(m, categoryId) ==
  InvalidatePattern(InvalidatePattern(m, AllProducts), CategoryProducts(categoryId))

\* the second invalidateListCache of the class, which is the one the class
\* ends up with: `invalidatePattern('products:*')`, whatever the argument
InvalidateListCache(m, categoryId) == InvalidatePattern(m, <<"products:", "*">>)

\* getAll / getByCategory through cache(), the client ready: a hit leaves
\* the entry, a miss stores what the database gave
ListRead ==
  /\ EnsureRedisClient(status)
  /\ \E k \in ListKeys :
       mem' = IF Prefixed(k) \in DOMAIN mem THEN mem ELSE SetIn(mem, k, "v1")
  /\ UNCHANGED <<keyPrefix, scall, sret, scalls, upd, lret>>

\* the cache step of a successful create, update or delete of product "1"
\* in category cat (an update may move it to category to)
ListWrite ==
  /\ EnsureRedisClient(status)
  /\ lret.n < MaxListWrites
  /\ \E kind \in WriteKinds, cat \in Categories, to \in Categories :
       /\ kind # "update" => to = cat
       /\ LET first == InvalidateListCache(mem, cat)
              second == IF to # cat THEN InvalidateListCache(first, to) ELSE first
          IN mem' = IF kind = "create" THEN SetIn(second, Product("1"), "v1")
                    ELSE DelIn(second, {Product("1")})
       /\ lret' = [kind |-> kind, cat |-> cat, to |-> to, n |-> lret.n + 1]
  /\ UNCHANGED <<keyPrefix, scall, sret, scalls, upd>>

NextLists ==
  \/ ListRead /\ UNCHANGED <<cacheVars, rlVars, sagaVars, startVars, bulkVars, guardVars>>
  \/ ListWrite /\ UNCHANGED <<cacheVars, rlVars, sagaVars, startVars, bulkVars, guardVars>>

SagaInit ==
  /\ ServiceInit
  /\ ConsumerInit

\* the write paths with the consumer behind them: every published event is
\* delivered once
NextSaga ==
  \/ \E w \in Workers : CreateCall(w) /\ UNCHANGED <<cacheVars, rlVars, extVars>>
  \/ \E w \in Workers : UpdateCall(w) /\ UNCHANGED <<cacheVars, rlVars, extVars>>
  \/ \E w \in Workers : DeleteCall(w) /\ UNCHANGED <<cacheVars, rlVars, extVars>>
  \/ \E w \in Workers : CreateFind(w) /\ UNCHANGED <<cacheVars, rlVars, extVars>>
  \/ \E w \in Workers : CreateStore(w) /\ UNCHANGED <<cacheVars, rlVars, extVars>>
  \/ \E w \in Workers : CreateCache(w) /\ UNCHANGED <<cacheVars, rlVars, extVars>>
  \/ \E w \in Workers : CreateSend(w) /\ UNCHANGED <<cacheVars, rlVars, extVars>>
  \/ \E w \in Workers : UpdateFind(w) /\ UNCHANGED <<cacheVars, rlVars, extVars>>
  \/ \E w \in Workers : UpdateSlugCheck(w) /\ UNCHANGED <<cacheVars, rlVars, extVars>>
  \/ \E w \in Workers : UpdateStore(w) /\ UNCHANGED <<cacheVars, rlVars, extVars>>
  \/ \E w \in Workers : UpdateCache(w) /\ UNCHANGED <<cacheVars, rlVars, extVars>>
  \/ \E w \in Workers : UpdateSend(w) /\ UNCHANGED <<cacheVars, rlVars, extVars>>
  \/ \E w \in Workers : DeleteFind(w) /\ UNCHANGED <<cacheVars, rlVars, extVars>>
  \/ \E w \in Workers : DeleteStore(w) /\ UNCHANGED <<cacheVars, rlVars, extVars>>
  \/ \E w \in Workers : DeleteCache(w) /\ UNCHANGED <<cacheVars, rlVars, extVars>>
  \/ \E w \in Workers : DeleteSend(w) /\ UNCHANGED <<cacheVars, rlVars, extVars>>
  \/ HandleMessage /\ UNCHANGED <<cacheVars, rlVars, extVars>>
  \/ HandleProductCreated /\ UNCHANGED <<cacheVars, rlVars, extVars>>
  \/ HandleProductUpdated /\ UNCHANGED <<cacheVars, rlVars, extVars>>
  \/ HandleProductUpdatedIncrement /\ UNCHANGED <<cacheVars, rlVars, extVars>>
  \/ HandleProductDeleted /\ UNCHANGED <<cacheVars, rlVars, extVars>>
  \/ HandleMessageReturn /\ UNCHANGED <<cacheVars, rlVars, extVars>>

\* the consumer under any sequence of deliveries
NextConsumer ==
  \/ \E m \in Messages : Deliver(m) /\ UNCHANGED <<cacheVars, rlVars, extVars>>
  \/ HandleMessage /\ UNCHANGED <<cacheVars, rlVars, extVars>>
  \/ HandleProductCreated /\ UNCHANGED <<cacheVars, rlVars, extVars>>
  \/ HandleProductUpdated /\ UNCHANGED <<cacheVars, rlVars, extVars>>
  \/ HandleProductUpdatedIncrement /\ UNCHANGED <<cacheVars, rlVars, extVars>>
  \/ HandleProductDeleted /\ UNCHANGED <<cacheVars, rlVars, extVars>>
  \/ HandleMessageReturn /\ UNCHANGED <<cacheVars, rlVars, extVars>>

\* the wrappers unused, with the default key prefix
StoreAtRest ==
  /\ StoreInit
  /\ keyPrefix = <<"default:">>

\* the added components before anything has run
ExtAtRest ==
  /\ StartupInit
  /\ BulkInit
  /\ GuardInit
  /\ StoreAtRest
  /\ WriteInit

InitCache ==
  /\ CacheInit
  /\ LimiterAtRest
  /\ SagaInit
  /\ ExtAtRest

SpecCache == InitCache /\ [][NextCache]_vars

CacheAtRest ==
  /\ CacheInit
  /\ origin = Null

InitLimiter ==
  /\ CacheAtRest
  /\ LimiterInit
  /\ SagaInit
  /\ ExtAtRest

SpecLimiter == InitLimiter /\ [][NextLimiter]_vars

\* the write paths run with the Redis client ready
InitSaga ==
  /\ CacheAtRest
  /\ status = "ready"
  /\ LimiterAtRest
  /\ SagaInit
  /\ ExtAtRest

SpecSaga == InitSaga /\ [][NextSaga]_vars

InitConsumer ==
  /\ CacheAtRest
  /\ LimiterAtRest
  /\ SagaInit
  /\ ExtAtRest

SpecConsumer == InitConsumer /\ [][NextConsumer]_vars

InitStartup ==
  /\ CacheAtRest
  /\ status = "ready"
  /\ LimiterAtRest
  /\ SagaInit
  /\ StartupInit
  /\ BulkInit
  /\ GuardInit
  /\ StoreAtRest
  /\ WriteInit

\* Nest awaits the hook of every instance, and a pending connect or timer
\* always settles: every enabled step of the startup is eventually taken
SpecStartup == InitStartup /\ [][NextStartup]_vars /\ WF_vars(NextStartup)

InitBulk ==
  /\ CacheAtRest
  /\ LimiterInit
  /\ SagaInit
  /\ StartupInit
  /\ BulkInit
  /\ GuardInit
  /\ StoreAtRest
  /\ WriteInit

SpecBulk == InitBulk /\ [][NextBulk]_vars

\* the rule of ProductController.create
ScenarioRule ==
  /\ windowMs = ScenarioWindowMs
  /\ maxRequests = ScenarioMaxRequests
  /\ LimiterStart

InitGuard ==
  /\ CacheAtRest
  /\ ScenarioRule
  /\ SagaInit
  /\ ExtAtRest

SpecGuard == InitGuard /\ [][NextGuard]_vars

\* the rule under which bursts of calls and late pipelines are followed;
\* the client stays ready
BurstRule ==
  /\ windowMs = BurstWindowMs
  /\ maxRequests = BurstMaxRequests
  /\ LimiterStart

InitBurst ==
  /\ CacheAtRest
  /\ status = "ready"
  /\ BurstRule
  /\ SagaInit
  /\ ExtAtRest

NextBurst ==
  \/ \E r \in Clients : RlCall(r) /\ UNCHANGED <<cacheVars, sagaVars, extVars>>
  \/ \E r \in Clients : RlExec(r) /\ UNCHANGED <<cacheVars, sagaVars, extVars>>
  \/ AdvanceClock /\ UNCHANGED <<cacheVars, sagaVars, extVars>>

SpecBurst == InitBurst /\ [][NextBurst]_vars

\* windows on both sides of a whole number of seconds
ExpiryWindows == {1, 999, 1000, 1001, 1500, 1999}

InitExpiry ==
  /\ CacheAtRest
  /\ status = "ready"
  /\ windowMs \in ExpiryWindows
  /\ maxRequests = BurstMaxRequests
  /\ LimiterStart
  /\ SagaInit
  /\ ExtAtRest

SpecExpiry == InitExpiry /\ [][NextBurst]_vars

InitCacheLive ==
  /\ CacheInit
  /\ status = "ready"
  /\ LimiterAtRest
  /\ SagaInit
  /\ ExtAtRest

\* the event loop runs every continuation that is ready and every timer
\* fires: a caller inside cache() takes its next step, and a stored lock
\* key meets the end of its lease
SpecCacheLive ==
  /\ InitCacheLive
  /\ [][NextCacheLive]_vars
  /\ \A c \in Callers : WF_vars(CallerStep(c))
  /\ WF_vars(LeaseEnd /\ UNCHANGED <<rlVars, sagaVars, extVars>>)

InitReaders ==
  /\ CacheInit
  /\ status = "ready"
  /\ origin = Entity(1)
  /\ LimiterAtRest
  /\ SagaInit
  /\ ExtAtRest

SpecReaders == InitReaders /\ [][NextReaders]_vars

\* the list entries under either key prefix, the client ready
InitLists ==
  /\ CacheAtRest
  /\ status = "ready"
  /\ LimiterAtRest
  /\ SagaInit
  /\ StartupInit
  /\ BulkInit
  /\ GuardInit
  /\ StoreInit
  /\ WriteInit

SpecLists == InitLists /\ [][NextLists]_vars

InitStore ==
  /\ CacheAtRest
  /\ LimiterAtRest
  /\ SagaInit
  /\ StartupInit
  /\ BulkInit
  /\ GuardInit
  /\ StoreInit
  /\ WriteInit

SpecStore == InitStore /\ [][NextStore]_vars

Init ==
  /\ CacheInit
  /\ LimiterInit
  /\ SagaInit
  /\ ExtAtRest

Next == NextCache \/ NextLimiter \/ NextSaga \/ NextConsumer \/ NextStartup \/ NextBulk \/ NextGuard \/ NextStore \/ NextBurst \/ NextCacheLive \/ NextReaders \/ NextLists

Spec == Init /\ [][Next]_vars

(***************************************************************************)
(* Properties of cache()                                                   *)
(***************************************************************************)
RoundTrip(v) == JSONparse(JSONstringify(v))
AllDone == \A c \in Callers : pc[c] = "done"
Holders == {c \in Callers : InCrit(c)}
LockFetchers == {c \in Callers : client[c] /\ Fetching(c)}

\* C1: callers of cache() on one missing key, the store ready throughout and
\* fetchFn succeeding: fetchFn is invoked once in total and every caller gets
\* the same value (compared as JSON, the form a cache hit returns).
C1_SingleFlight ==
  (quiet /\ ~everDown /\ \A c \in Callers : round[c] <= 1) =>
     /\ fetchCount <= 1
     /\ AllDone =>
          /\ fetchCount = 1
          /\ \A c, d \in Callers :
               /\ ret[c].kind = "value"
               /\ RoundTrip(ret[c].val) = RoundTrip(ret[d].val)

\* C6 as claimed: a call that follows a returned value v (store ready, entry
\* neither expired nor invalidated) returns v itself at its get, without
\* invoking fetchFn and without touching the lock key.
C6_RoundTripSameValue ==
  [][\A c \in Callers :
       (pc[c] = "get" /\ pc'[c] # "get" /\ after[c] /\ rt.valid) =>
          /\ pc'[c] = "done"
          /\ ret'[c] = RetValue(rt.v)
          /\ fetchCount' = fetchCount
          /\ lock' = lock]_vars

\* C6 amended: when moreover no other caller has written key since v was
\* returned, the following call returns JSON.parse(JSON.stringify(v)) at its
\* get, without invoking fetchFn and without touching the lock key.
C6_RoundTripJson ==
  [][\A c \in Callers :
       (pc[c] = "get" /\ pc'[c] # "get" /\ after[c] /\ rt.valid /\ rt.clean) =>
          /\ pc'[c] = "done"
          /\ ret'[c] = RetValue(RoundTrip(rt.v))
          /\ fetchCount' = fetchCount
          /\ lock' = lock]_vars

C6_Witness ==
  \E c \in Callers :
    /\ pc[c] = "done" /\ after[c] /\ ~invoked[c]
    /\ rt.valid /\ rt.clean
    /\ ret[c] = RetValue([ver |-> 1, createdAt |-> "string"])
    /\ \E d \in Callers \ {c} : pc[d] = "done" /\ ret[d] = RetValue(Entity(1))

\* C7: the lock holder's cache() returns with the lock key deleted and with
\* what the try block completed with (fetchFn's failure, or the value), and a
\* failed fetchFn writes nothing under key.
C7_LockReleasedOnFailure ==
  [][\A c \in Callers :
       /\ (pc[c] = "del" /\ pc'[c] = "done") => (~lock' /\ ret'[c] = pend[c])
       /\ (pc[c] = "fetch" /\ client[c] /\ pc'[c] = "del") =>
             (kv' = kv /\ pend'[c] = RetFetchError)]_vars

\* C8: a caller of cache() never receives a store fault, and a call that met
\* an unavailable store invoked fetchFn and returns what fetchFn gave.
C8_StoreFaultNeverSurfaces ==
  \A c \in Callers :
    pc[c] = "done" =>
      /\ ret[c].kind # "storeError"
      /\ sawDown[c] => invoked[c]

\* C9 as claimed: at most one caller is between its successful SET NX and its
\* own delete of the lock, in every reachable state.
C9_MutualExclusion == Cardinality(Holders) <= 1

\* C9 amended: as long as no lease has run out while its holder was still
\* before its delete, at most one caller is between SET NX and its delete.
C9_MutualExclusionUntilLeaseExpiry == leaseLost = 0 => Cardinality(Holders) <= 1

C9_Witness ==
  /\ leaseLost = 0
  /\ \E c, d \in Callers : c # d /\ InCrit(c) /\ lockOwner = c /\ pc[d] = "wait"

\* C10 as claimed: once a holder's fetchFn has outlived its lease, at most
\* two lock holders execute fetchFn at the same time.
C10_AtMostTwoFetching == leaseLost >= 1 => Cardinality(LockFetchers) <= 2

\* C10 amended: the lock holders executing fetchFn at the same time are at
\* most one more than the leases that ran out under a holder.
C10_OneExtraPerExpiredLease == Cardinality(LockFetchers) <= 1 + leaseLost

C10_Witness == leaseLost = 1 /\ Cardinality(LockFetchers) = 2

\* the step in which caller c gets the answer of its GET
GetAnswered(c) == pc[c] = "get" /\ pc'[c] # "get"

\* the GET was a hit: c returns the parsed entry, has invoked no fetchFn and
\* has left the lock key alone
ReturnsEntry(c) ==
  /\ kv # NoVal
  /\ pc'[c] = "done"
  /\ ret'[c] = RetValue(JSONparse(kv))
  /\ ~invoked'[c]
  /\ fetchCount' = fetchCount
  /\ lock' = lock /\ lockOwner' = lockOwner

\* C33 as claimed: a waiter whose retry began after a holder had written the
\* entry and deleted the lock, the store available since and the entry not
\* expired, returns the entry at its get.
C33_WaiterFindsValue ==
  [][\A c \in Callers :
       (GetAnswered(c) /\ waiter[c] = "released") => ReturnsEntry(c)]_vars

\* C33 amended: the same, when the write path has not deleted the entry
\* since.
C33_WaiterFindsValueUnlessInvalidated ==
  [][\A c \in Callers :
       (GetAnswered(c) /\ waiter[c] = "released" /\ rt.valid) => ReturnsEntry(c)]_vars

\* one fetchFn in all: the holder's; the waiter slept, retried and returned a value
C33_Witness ==
  /\ fetchCount = 1
  /\ ~lock
  /\ \E h, w \in Callers :
       /\ h # w
       /\ pc[h] = "done" /\ invoked[h] /\ ret[h].kind = "value"
       /\ pc[w] = "done" /\ waiter[w] = "released" /\ ~invoked[w]
       /\ ret[w] = RetValue(RoundTrip(ret[h].val))

\* C35: a caller's `del(lockKey)` takes away only the lock its own SET NX
\* stored, and a caller that found no client at entry takes away none.
C35_DeletesOwnLockOnly ==
  [][\A c \in Callers :
       (pc[c] = "del" /\ pc'[c] = "done" /\ lock /\ ~lock') =>
          (client[c] /\ lockOwner = c)]_vars

\* C34: with the store available, again and again every call of cache()
\* that has begun has returned a value or fetchFn's error, unless its own
\* process died: no caller stays in the retry loop for ever, also not when
\* a holder's fetchFn failed or a holder died with the lock.
C34_EveryCallReturns ==
  []<>(\A c \in Callers :
         \/ pc[c] = "idle"
         \/ pc[c] = "crashed"
         \/ pc[c] = "done" /\ ret[c].kind \in {"value", "fetchError"})

\* one holder got fetchFn's error, the next died holding the lock, and the
\* caller that slept meanwhile took the lock after the lease and returned a value
C34_Witness ==
  \E f, h, w \in Callers :
    /\ pc[f] = "done" /\ ret[f].kind = "fetchError"
    /\ pc[h] = "crashed"
    /\ pc[w] = "done" /\ waiter[w] = "waited" /\ invoked[w] /\ ret[w].kind = "value"

\* C38: once update(id, dto) and every byId reader inside cache() have
\* returned, the entry under product:<id> is absent or is the row the
\* update stored.
C38_NoStaleEntryAfterUpdate ==
  (upd = "done" /\ \A c \in Callers : pc[c] \in {"idle", "done"}) =>
     (kv = NoVal \/ kv = JSONstringify(origin))

\* C32: after the cache step of a successful create, update or delete in
\* category C (and, for a moving update, the new category) neither
\* products:all nor category:C:products is stored.
C32_ListEntriesAbsentAfterWrite ==
  [][lret'.n = lret.n + 1 =>
       \A k \in {AllProducts, CategoryProducts(lret'.cat), CategoryProducts(lret'.to)} :
         Prefixed(k) \notin DOMAIN mem']_vars

(***************************************************************************)
(* Properties of checkRateLimit                                            *)
(***************************************************************************)
Answered == numCalls >= 1
InOneWindow == lastNow - firstNow < windowMs

\* C2: from an empty key and with every call answered from the store, the
\* first maxRequests calls made within windowMs of the first are all allowed.
C2_WithinLimitAllowed ==
  (Answered /\ allStore /\ InOneWindow /\ numCalls <= maxRequests) => last.res.allowed

C2_Witness ==
  /\ numCalls = 2 /\ maxRequests = 2 /\ allStore /\ InOneWindow
  /\ last.res.allowed /\ last.res.remaining = 0 /\ prevRemaining = 1

\* C3: with every call answered from the store and all of them within one
\* windowMs, each call after the maxRequests-th is rejected and `remaining`
\* never exceeds that of the call before.
C3_OverLimitRejected ==
  (Answered /\ allStore /\ InOneWindow) =>
     /\ numCalls > maxRequests => ~last.res.allowed
     /\ last.res.remaining <= prevRemaining

C3_Witness ==
  /\ numCalls = 3 /\ maxRequests = 2 /\ allStore /\ InOneWindow
  /\ ~last.res.allowed /\ last.res.remaining = 0 /\ prevRemaining = 0

\* C4 as claimed: a call whose `now` is windowMs or more past the `now` of
\* every call before it is allowed with remaining = maxRequests - 1.
C4_FreshAfterIdleWindow ==
  (Answered /\ last.gap >= windowMs) =>
     (last.res.allowed /\ last.res.remaining = maxRequests - 1)

\* C4 amended: a call whose `now` is windowMs or more past the `now` of
\* every call before it, and that is answered from the store, is allowed
\* with remaining = maxRequests - 1.
C4_FreshAfterIdleWindowFromStore ==
  (Answered /\ last.gap >= windowMs /\ last.path = "store") =>
     (last.res.allowed /\ last.res.remaining = maxRequests - 1)

C4_Witness ==
  /\ numCalls = 3 /\ maxRequests = 2 /\ allStore /\ prevRemaining = 0
  /\ last.gap = windowMs /\ last.path = "store"
  /\ last.res.allowed /\ last.res.remaining = 1

\* C5: a call answered without the store's count (no client, client not
\* ready, pipeline answering null, an error in a command, or exec throwing)
\* gets allowed = true with remaining = total = maxRequests.
C5_FailOpen ==
  (Answered /\ last.path \in {"noClient", "pipelineFailed"}) =>
     /\ last.res.allowed
     /\ last.res.remaining = maxRequests
     /\ last.res.total = maxRequests

C5_Witness ==
  /\ numCalls = 3 /\ maxRequests = 1 /\ prevRemaining = 0
  /\ last.path = "pipelineFailed" /\ last.res.allowed /\ last.res.remaining = 1
  /\ zset # EmptyZ


(***************************************************************************)
(* Properties of ProductConsumer                                           *)
(***************************************************************************)
\* the send calls and the notifications made for delivery n, in order
EmitsOf(n) == SelectSeq(emitted, LAMBDA e : e.n = n)
NotesOf(n) == SelectSeq(notified, LAMBDA e : e.n = n)
Done == 1..Len(handled)
AllOk(es) == \A j \in 1..Len(es) : es[j].ok
IsEvent(m, topic) == m.kind = "json" /\ m.topic = topic
Sent(es, j, dir, cat, pid) ==
  es[j].dir = dir /\ es[j].cat = cat /\ es[j].pid = pid

\* C11: a handled product.updated message with oldCategoryId present and
\* different from categoryId, all its sends succeeding, made exactly two
\* sends: the decrement for the old category, then the increment for the new
\* one; with oldCategoryId absent or equal to categoryId it made none.
C11_MoveEmitsDecrementThenIncrement ==
  \A n \in Done :
    IsEvent(handled[n], "product.updated") =>
      LET m == handled[n]
          es == EmitsOf(n)
      IN IF m.old # NoCat /\ m.old # m.cat
           THEN AllOk(es) =>
                  /\ Len(es) = 2
                  /\ Sent(es, 1, "decrement", m.old, m.id)
                  /\ Sent(es, 2, "increment", m.cat, m.id)
           ELSE es = <<>>

C11_Witness ==
  \E n \in Done :
    /\ IsEvent(handled[n], "product.updated")
    /\ handled[n].old = "A" /\ handled[n].cat = "B"
    /\ Len(EmitsOf(n)) = 2 /\ AllOk(EmitsOf(n))

\* C12: for every product.created message m, the increment sends made for
\* the handled deliveries of m are as many as those deliveries, whatever was
\* handled in between.
C12_NoDeduplication ==
  \A m \in WellFormed :
    m.topic = "product.created" =>
      Cardinality({j \in 1..Len(emitted) :
                     /\ emitted[j].n \in Done
                     /\ handled[emitted[j].n] = m
                     /\ emitted[j].dir = "increment"
                     /\ emitted[j].cat = m.cat})
        = Cardinality({n \in Done : handled[n] = m})

C12_Witness ==
  /\ Len(handled) = 3
  /\ IsEvent(handled[1], "product.created")
  /\ handled[3] = handled[1]
  /\ handled[2] # handled[1]
  /\ Len(EmitsOf(1)) = 1 /\ Len(EmitsOf(3)) = 1

OneIncrement(m, es) ==
  Len(es) = 1 /\ Sent(es, 1, "increment", m.cat, m.id)

\* C13 as stated: every handled product.created message made exactly one
\* increment send carrying its categoryId and id, and exactly one
\* notifyProductCreated call.
C13_CreatedEmitsAndNotifies ==
  \A n \in Done :
    IsEvent(handled[n], "product.created") =>
      /\ OneIncrement(handled[n], EmitsOf(n))
      /\ Len(NotesOf(n)) = 1

\* C13: every handled product.created message made exactly one increment
\* send carrying its categoryId and id; it made one notifyProductCreated
\* call for its id when that send succeeded and none when it failed; with
\* either failure handleMessage returned, and the deliveries after it obey
\* the same rule.
C13_CreatedEmitsThenNotifiesIfSent ==
  \A n \in Done :
    IsEvent(handled[n], "product.created") =>
      /\ OneIncrement(handled[n], EmitsOf(n))
      /\ Len(NotesOf(n)) = IF EmitsOf(n)[1].ok THEN 1 ELSE 0
      /\ \A j \in 1..Len(NotesOf(n)) : NotesOf(n)[j].pid = handled[n].id

C13_Witness ==
  /\ Len(handled) >= 2
  /\ IsEvent(handled[1], "product.created")
  /\ ~EmitsOf(1)[1].ok /\ NotesOf(1) = <<>>
  /\ IsEvent(handled[2], "product.created")
  /\ EmitsOf(2)[1].ok /\ Len(NotesOf(2)) = 1

\* C14: every handled product.deleted message made exactly one send, the
\* decrement for its categoryId, and no notification, whether that send
\* succeeded or failed; handleMessage returned and later deliveries obey the
\* same rule.
C14_DeletedEmitsOneDecrement ==
  \A n \in Done :
    IsEvent(handled[n], "product.deleted") =>
      /\ Len(EmitsOf(n)) = 1
      /\ Sent(EmitsOf(n), 1, "decrement", handled[n].cat, handled[n].id)
      /\ NotesOf(n) = <<>>

C14_Witness ==
  /\ Len(handled) >= 2
  /\ IsEvent(handled[1], "product.deleted") /\ ~EmitsOf(1)[1].ok
  /\ IsEvent(handled[2], "product.deleted") /\ EmitsOf(2)[1].ok

\* what a well-formed message makes the consumer do, by its content alone
Conforms(m, es, ns) ==
  CASE m.topic = "product.created" ->
         /\ OneIncrement(m, es)
         /\ Len(ns) = IF es[1].ok THEN 1 ELSE 0
    [] m.topic = "product.updated" ->
         IF m.old # NoCat /\ m.old # m.cat
           THEN /\ Len(es) = IF es[1].ok THEN 2 ELSE 1
                /\ Sent(es, 1, "decrement", m.old, m.id)
                /\ Len(es) = 2 => Sent(es, 2, "increment", m.cat, m.id)
                /\ ns = <<>>
           ELSE es = <<>> /\ ns = <<>>
    [] m.topic = "product.deleted" ->
         /\ Len(es) = 1
         /\ Sent(es, 1, "decrement", m.cat, m.id)
         /\ ns = <<>>

\* C15: a handled message without a value or with an unparseable one made
\* no send and no notification, its handleMessage call returned, and every
\* well-formed message handled in the behaviour, before or after it, made
\* exactly the calls its own content prescribes.
C15_PoisonPillIsolation ==
  \A n \in Done :
    IF handled[n].kind = "json"
      THEN Conforms(handled[n], EmitsOf(n), NotesOf(n))
      ELSE EmitsOf(n) = <<>> /\ NotesOf(n) = <<>>

C15_Witness ==
  /\ Len(handled) = 3
  /\ handled[1].kind = "unparseable"
  /\ handled[2].kind = "null"
  /\ IsEvent(handled[3], "product.updated")
  /\ Len(EmitsOf(3)) = 2 /\ AllOk(EmitsOf(3))
  /\ Len(emitted) = 2 /\ notified = <<>>


(***************************************************************************)
(* Properties of the write paths and of the saga                           *)
(***************************************************************************)
\* the successful sends of one direction for a category
Count(dir, c) ==
  Cardinality({j \in 1..Len(emitted) : emitted[j].dir = dir /\ emitted[j].cat = c})
InCategory(c) == {i \in Ids : db[i].present /\ db[i].cat = c}

\* no operation under way, every operation that changed the table published
\* its event, every published event handled, every emission succeeded
Settled ==
  /\ \A w \in Workers : ~Running(w) /\ op[w].out # "PublishError"
  /\ faults = 0
  /\ inbox = <<>>
  /\ cpc = "idle"
  /\ AllOk(emitted)

\* C16: once the write operations have ended with their events published,
\* every event was handled once and every emission succeeded, for each
\* category increments minus decrements equal the rows of that category.
C16_CountersMatchStore ==
  Settled =>
    \A c \in Categories :
      Count("increment", c) - Count("decrement", c) = Cardinality(InCategory(c))

\* the step by which worker w's send rejects
SendFails(w) ==
  op[w].pc = "send" /\ op'[w].pc = "done" /\ faults' = faults + 1

\* C17: a rejected send of the producer makes the operation reject with the
\* publish failure, and that step leaves the table and the cache as the
\* store mutation and the cache step of the operation made them.
C17_PublishFailurePropagates ==
  [][\A w \in Workers :
       SendFails(w) =>
         /\ op'[w].out = "PublishError"
         /\ op[w].trace = <<"store", "cache">>
         /\ op'[w].trace = op[w].trace
         /\ db' = db
         /\ pcache' = pcache
         /\ inbox' = inbox]_vars

C17_Witness ==
  \E w \in Workers :
    /\ op[w].kind = "create" /\ op[w].out = "PublishError"
    /\ db[op[w].id].present
    /\ pcache[op[w].id]

TopicOf(kind) ==
  CASE kind = "create" -> "product.created"
    [] kind = "update" -> "product.updated"
    [] kind = "delete" -> "product.deleted"
    [] OTHER -> "none"

IsPrefix(a, b) == Len(a) <= Len(b) /\ a = SubSeq(b, 1, Len(a))

\* C18: the steps of every create, update and delete are, in this order, the
\* store mutation, the cache step and the publish; an operation that
\* resolved made all three and published exactly one event, of its topic and
\* with the entity's id; one whose store mutation failed made no step and
\* rejected; a rejected operation published nothing.
C18_WritePathOrder ==
  \A w \in Workers :
    /\ IsPrefix(op[w].trace, <<"store", "cache", "publish">>)
    /\ op[w].out = "ok" =>
         /\ op[w].trace = <<"store", "cache", "publish">>
         /\ Len(op[w].pub) = 1
         /\ op[w].pub[1].topic = TopicOf(op[w].kind)
         /\ op[w].pub[1].id = op[w].id
         /\ op[w].pub[1].kind = "json"
    /\ op[w].out = "DbError" => op[w].trace = <<>>
    /\ op[w].out # "ok" => op[w].pub = <<>>
    /\ Len(op[w].pub) = (IF "publish" \in {op[w].trace[j] : j \in 1..Len(op[w].trace)}
                           THEN 1 ELSE 0)

C18_Witness ==
  /\ \E w \in Workers :
       /\ op[w].kind = "create" /\ op[w].out = "ok"
       /\ op[w].trace = <<"store", "cache", "publish">>
  /\ \E w \in Workers : op[w].out = "DbError"

\* the step by which worker w's call ends without having changed anything
Untouched == db' = db /\ nextId' = nextId /\ pcache' = pcache /\ inbox' = inbox

\* C19: create with a slug that the table already holds rejects with the
\* conflict error, and the table, the cache and the bus are left as they were.
C19_DuplicateSlugConflict ==
  [][\A w \in Workers :
       (op[w].kind = "create" /\ op[w].pc = "find"
          /\ FindBySlug(db, op[w].dslug) # {} /\ op'[w] # op[w]) =>
         /\ op'[w].pc = "done"
         /\ op'[w].out = "ConflictException"
         /\ op'[w].trace = <<>>
         /\ Untouched]_vars

\* C20: update and delete of an id the table does not hold reject with the
\* not-found error, update to a slug held by another row rejects with the
\* conflict error, and both leave the table, the cache and the bus as they were.
C20_MissingOrTakenRejected ==
  [][\A w \in Workers :
       /\ (op[w].kind \in {"update", "delete"} /\ op[w].pc = "find"
             /\ ~db[op[w].id].present /\ op'[w] # op[w]) =>
            /\ op'[w].pc = "done"
            /\ op'[w].out = "NotFound"
            /\ op'[w].trace = <<>>
            /\ Untouched
       /\ (op[w].kind = "update" /\ op[w].pc = "slug"
             /\ FindBySlug(db, op[w].dslug) # {} /\ op'[w] # op[w]) =>
            /\ op'[w].pc = "done"
            /\ op'[w].out = "ConflictException"
            /\ op'[w].trace = <<>>
            /\ Untouched]_vars

\* C30: a handled move whose decrement was published and whose increment
\* failed made exactly those two sends, the decrement for the old category
\* and the one failed increment for the new one: no second attempt and no
\* compensating send, so one decrement and no increment went out
C30_FailedIncrementLeavesSkew ==
  \A n \in Done :
    LET m == handled[n]
        es == EmitsOf(n)
    IN (/\ IsEvent(m, "product.updated")
        /\ m.old # NoCat /\ m.old # m.cat
        /\ Len(es) >= 2
        /\ es[1].ok /\ ~es[2].ok) =>
         /\ Len(es) = 2
         /\ Sent(es, 1, "decrement", m.old, m.id)
         /\ Sent(es, 2, "increment", m.cat, m.id)
         /\ Cardinality({j \in 1..Len(es) : es[j].ok /\ es[j].dir = "decrement"}) = 1
         /\ Cardinality({j \in 1..Len(es) : es[j].ok /\ es[j].dir = "increment"}) = 0

C30_Witness ==
  /\ Len(handled) = 2
  /\ IsEvent(handled[1], "product.updated")
  /\ handled[1].old = "B" /\ handled[1].cat = "A"
  /\ Len(EmitsOf(1)) = 2
  /\ EmitsOf(1)[1].ok /\ ~EmitsOf(1)[2].ok
  /\ IsEvent(handled[2], "product.created")
  /\ Len(EmitsOf(2)) = 1

\* the deliveries handled or under way
Taken == 1..(Len(handled) + (IF cpc = "idle" THEN 0 ELSE 1))

\* C31: whatever the topic and whichever send fails, handleMessage does not
\* throw, so every delivery taken is handled once, and no delivery makes
\* two sends of the same direction
C31_HandlerNeverThrows ==
  /\ cpc # "threw"
  /\ \A n \in Taken : \A d \in {"increment", "decrement"} :
       Cardinality({j \in 1..Len(emitted) : emitted[j].n = n /\ emitted[j].dir = d}) <= 1

C31_Witness ==
  /\ Len(handled) = 3
  /\ IsEvent(handled[1], "product.deleted") /\ ~EmitsOf(1)[1].ok
  /\ handled[2].kind = "unparseable"
  /\ IsEvent(handled[3], "product.updated") /\ Len(EmitsOf(3)) = 2

\* C36: a notifyProductCreated call is made only for a delivery whose
\* increment send succeeded; a product.created delivery whose increment
\* send failed makes no notification
C36_NotifyOnlyAfterIncrement ==
  /\ \A j \in 1..Len(notified) :
       \E k \in 1..Len(emitted) :
         /\ emitted[k].n = notified[j].n
         /\ emitted[k].dir = "increment"
         /\ emitted[k].ok
  /\ \A n \in Taken :
       (EmitsOf(n) # <<>> /\ ~EmitsOf(n)[1].ok) => NotesOf(n) = <<>>

C36_Witness ==
  /\ Len(handled) = 2
  /\ IsEvent(handled[1], "product.created")
  /\ EmitsOf(1)[1].ok /\ Len(NotesOf(1)) = 1
  /\ IsEvent(handled[2], "product.created")
  /\ ~EmitsOf(2)[1].ok /\ NotesOf(2) = <<>>
  /\ handled[2] # handled[1]

\* C37: in a delivery of product.updated an increment send has the
\* successful decrement send for the old category right before it; when the
\* decrement send failed it is the only send of the delivery
C37_IncrementOnlyAfterDecrement ==
  \A n \in Taken :
    LET es == EmitsOf(n)
        m == IF n <= Len(handled) THEN handled[n] ELSE cmsg
    IN IsEvent(m, "product.updated") =>
         /\ \A j \in 1..Len(es) :
              es[j].dir = "increment" =>
                /\ j = 2
                /\ es[1].ok
                /\ Sent(es, 1, "decrement", m.old, m.id)
         /\ (es # <<>> /\ ~es[1].ok) => Len(es) = 1

C37_Witness ==
  /\ Len(handled) = 2
  /\ IsEvent(handled[1], "product.updated")
  /\ Len(EmitsOf(1)) = 1 /\ ~EmitsOf(1)[1].ok
  /\ IsEvent(handled[2], "product.updated")
  /\ Len(EmitsOf(2)) = 2 /\ EmitsOf(2)[2].dir = "increment"

\* C39: a call answered by the branch `if (!client)` leaves the key as it
\* was: no member added, none pruned, the expiry not moved
C39_FallbackLeavesStateUnchanged ==
  [][(numCalls' = numCalls + 1 /\ last'.path = "noClient") =>
       (zset' = zset /\ zexpireAt' = zexpireAt)]_vars

\* a call was answered by the fallback while the key held a live member,
\* and the member is still there
C39_Witness ==
  /\ last.path = "noClient"
  /\ numCalls >= 2
  /\ ZCard(zset) = 1
  /\ zexpireAt > clock

\* C40: the expiry set on the key is no shorter than the window; every
\* pipeline applied sets it anew; no member still inside the window is in
\* the key when it expires, which is at least windowMs after the last
\* check that reached the store
C40_ExpiryCoversWindow ==
  /\ [](/\ ExpireSeconds(windowMs) * MsPerSecond >= windowMs
        /\ \A t \in DOMAIN zset : zexpireAt >= t + windowMs)
  /\ [][/\ (clock' = clock /\ zset' # zset) =>
             zexpireAt' = clock + ExpireSeconds(windowMs) * MsPerSecond
        /\ (zexpireAt # -1 /\ zexpireAt' = -1) =>
             \A t \in DOMAIN zset : clock' >= t + windowMs]_vars

\* the key expired after its last check, for a window of one millisecond
\* and for a window of a whole second
C40_Witness ==
  /\ windowMs \in {1, 1000}
  /\ numCalls = 2
  /\ last.path = "store"
  /\ zexpireAt = -1
  /\ zset = EmptyZ
  /\ clock = MaxClock

\* C26: every message published through KafkaProducerService.send, a domain
\* event of the write path or a counter adjustment of the consumer, carries
\* the product's id as its partition key
C26_KeyIsProductId ==
  /\ \A w \in Workers : \A j \in 1..Len(op[w].pub) :
       PartitionKey(op[w].pub[j]) = op[w].pub[j].id
  /\ \A j \in 1..Len(emitted) : emitted[j].key = emitted[j].pid

(***************************************************************************)
(* Properties of the producer's startup                                    *)
(***************************************************************************)
Ended(p) == pst[p].pc \in {"connected", "gaveUp"}

\* the backoff has been taken once after every failed attempt but the fifth
StartupBounded(p) ==
  LET st == pst[p] IN
  /\ st.attempts <= MaxRetries
  /\ st.pc = "connected" =>
       /\ st.attempts = st.retries + 1
       /\ st.waitedMs = BackoffMs * (st.attempts - 1)
  /\ st.pc = "backoff" =>
       /\ st.attempts = st.retries
       /\ st.attempts < MaxRetries
       /\ st.waitedMs = BackoffMs * (st.attempts - 1)
  /\ st.pc = "loop" /\ st.attempts > 0 =>
       st.waitedMs = BackoffMs * (IF st.attempts < MaxRetries THEN st.attempts
                                  ELSE MaxRetries - 1)
  /\ st.pc = "gaveUp" =>
       /\ st.attempts = MaxRetries
       /\ st.retries = MaxRetries
       /\ st.waitedMs = BackoffMs * (MaxRetries - 1)

\* C21: onModuleInit makes at most five connect attempts, makes none after
\* the first success, waits the fixed 3000 ms after every failed attempt
\* except the fifth, and always ends by returning: connected, or given up
\* after five failures
C21_StartupTerminates ==
  /\ [](\A p \in Producers : StartupBounded(p))
  /\ <>[](\A p \in Producers : Ended(p))

C21_Witness ==
  /\ \E p \in Producers :
       pst[p] = [pc |-> "gaveUp", retries |-> MaxRetries,
                 attempts |-> MaxRetries, waitedMs |-> 4 * BackoffMs]
  /\ \E p \in Producers : pst[p].pc = "connected" /\ pst[p].attempts = 3

(***************************************************************************)
(* Properties of bulkRateLimit                                             *)
(***************************************************************************)
\* what checkRateLimit returns for one identifier on the set it finds
CheckRateLimitOn(live, now, storeFailed) ==
  IF storeFailed
    THEN FallbackResult(now, windowMs, maxRequests)
    ELSE StoreResult(now, ZCard(ZRemRangeByScore(live, 0, now - windowMs)),
                     windowMs, maxRequests)

\* C22: the map bulkRateLimit returns has one entry per identifier, equal to
\* what checkRateLimit returns on the same store state, and on any store
\* failure (client not ready, exec throwing or returning null, an error in
\* a command's slot) every identifier is allowed with remaining = maxRequests
C22_BulkEqualsSingleChecks ==
  bcalls > 0 =>
    /\ DOMAIN bret.map = IdsOf(bret.ids)
    /\ \A id \in IdsOf(bret.ids) :
         bret.map[id] = CheckRateLimitOn(bret.found[id], bret.now, bret.path # "store")

ScenarioSoFar ==
  /\ numCalls > 0
  /\ allStore
  /\ gout.consulted
  /\ gout.res = last.res

FirstFiveAdmitted ==
  numCalls <= ScenarioMaxRequests =>
    /\ gout.kind = "admitted"
    /\ gout.res.remaining = ScenarioMaxRequests - numCalls

\* C24 as stated: under windowMs = 60000 and maxRequests = 5, calls 1 to 5
\* made in the first 10 s are allowed, and a 6th call at t = 10 s, the first
\* having been made at t = 0, is rejected with remaining = 0 and a retryAfter
\* of about 50 s
C24_SixthCallRetryAfterFifty ==
  ScenarioSoFar =>
    /\ FirstFiveAdmitted
    /\ (numCalls = 6 /\ last.now = ScenarioEnd /\ firstNow = 0) =>
         /\ gout.kind = "rejected"
         /\ gout.remaining = 0
         /\ gout.retryAfter >= 45
         /\ gout.retryAfter <= 55

\* C24: under windowMs = 60000 and maxRequests = 5, calls 1 to 5 made in the
\* first 10 s are allowed, and a 6th call made in the first 10 s is rejected
\* with remaining = 0 and retryAfter = 60 s, the whole window counted from
\* the rejected call
C24_SixthCallRetryAfterWindow ==
  ScenarioSoFar =>
    /\ FirstFiveAdmitted
    /\ numCalls = 6 =>
         /\ gout.kind = "rejected"
         /\ gout.remaining = 0
         /\ gout.retryAfter * MsPerSecond = ScenarioWindowMs

C24_Witness ==
  /\ ScenarioSoFar
  /\ numCalls = 6
  /\ last.now = ScenarioEnd
  /\ firstNow = 0
  /\ gout.kind = "rejected"
  /\ gout.reset = ScenarioEnd + ScenarioWindowMs

(***************************************************************************)
(* Properties of the command wrappers                                      *)
(***************************************************************************)
\* C25: when the client is absent or not ready, or the command fails, get
\* returns null, exists returns false, and set, del and invalidatePattern
\* return without effect on the store; no wrapper throws
C25_SentinelsNeverThrow ==
  [][scalls' = scalls + 1 =>
       /\ sret'.kind = "returned"
       /\ sret'.cause # "ok" =>
            /\ mem' = mem
            /\ sret'.op = "get" => sret'.value = "null"
            /\ sret'.op = "exists" => sret'.value = "false"
            /\ sret'.op \in {"set", "del", "invalidatePattern"} =>
                 sret'.value = "undefined"]_vars

C25_Witness ==
  /\ sret.op = "invalidatePattern"
  /\ sret.cause = "commandFailed"
  /\ mem # [n \in {} |-> "none"]
  /\ scalls = 3

(***************************************************************************)
(* Properties of the window under bursts and late pipelines                *)
(***************************************************************************)
\* a checkRateLimit call ends with its answer taken from the store
StoreAnswer == numCalls' = numCalls + 1 /\ last'.path = "store"

\* the members whose score is later than now - windowMs
InWindow(z, now) == {t \in DOMAIN z : t > now - windowMs}

OneMarkerInserted ==
  StoreAnswer =>
    ZCard(zset') = SumOver(zset, InWindow(zset, last'.now)) + 1

\* C27 as stated: every call that reaches the store inserts exactly one
\* marker whatever its verdict, and a caller rejected once that calls again
\* less than windowMs/maxRequests later is not admitted
C27_RejectedStormNeverAdmitted ==
  [][/\ OneMarkerInserted
     /\ (StoreAnswer /\ allStore' /\ ~hist'.prevAllowed /\ last'.gap >= 0
         /\ last'.gap * maxRequests < windowMs) => ~last'.res.allowed]_vars

\* C27: every call that reaches the store inserts exactly one marker
\* whatever its verdict, and a call is rejected when the maxRequests calls
\* before it were answered from the store, each made no earlier than the
\* ones before it and less than windowMs/maxRequests before the next, the
\* key not having expired since
C27_StormOfShortGapsRejected ==
  [][/\ OneMarkerInserted
     /\ (StoreAnswer /\ allStore' /\ hist'.streak >= maxRequests /\ zexpireAt # -1)
          => ~last'.res.allowed]_vars

C27_Witness ==
  /\ allStore
  /\ numCalls = 4
  /\ hist.streak = 3
  /\ ~hist.prevAllowed
  /\ ~last.res.allowed
  /\ last.gap = 500

\* C28: right after the pruning of a call made at `now` the set holds only
\* markers later than now - windowMs, a marker exactly windowMs old being
\* removed, and the count the verdict uses is taken then, before the insert
C28_PruneThenCount ==
  [][StoreAnswer =>
       /\ \A t \in DOMAIN zset' : t > last'.now - windowMs
       /\ \A t \in DOMAIN zset' : zset'[t] = (IF t \in DOMAIN zset THEN zset[t] ELSE 0)
                                            + (IF t = last'.now THEN 1 ELSE 0)
       /\ LET counted == SumOver(zset, InWindow(zset, last'.now))
          IN /\ last'.res.allowed = (counted + 1 <= maxRequests)
             /\ last'.res.remaining = Max(0, maxRequests - (counted + 1))]_vars

C28_Witness ==
  /\ last.path = "store"
  /\ numCalls = 2
  /\ last.gap = windowMs
  /\ maxRequests = 1
  /\ last.res.allowed
  /\ DOMAIN zset = {last.now}
  /\ zset[last.now] = 1

\* C29: whatever the interleaving of the calls on one key, all of them
\* answered from the store, no more than maxRequests of the allowed ones
\* have their `now` in one span of windowMs
C29_AdmissionBound ==
  allStore =>
    \A t \in DOMAIN hist.admitted :
      SumOver(hist.admitted, {u \in DOMAIN hist.admitted : t - windowMs < u /\ u <= t})
        <= maxRequests

====
